---------------------------- MODULE Spec2Model ----------------------------
(***************************************************************************)
(* A model of i2g-operator: the controller that translates Ingress objects *)
(* into Gateway API HTTPRoute / TCPRoute objects.                          *)
(*                                                                         *)
(*   src/src/main.rs           reconcile, on_error, lease_renew, main and  *)
(*                             the route builders                          *)
(*   src/src/value_filters.rs  MatchRule, MatcherList                      *)
(*   src/src/utils.rs          sanitize_hostname, add_owner                *)
(*   src/src/ctx.rs, args.rs   Context, I2GArgs                            *)
(*                                                                         *)
(* Representation.  A Rust String is a sequence of one-character strings,  *)
(* so that to_lowercase, the regex replacement, split and parse are        *)
(* computed character by character.  Option<T> is a sequence of length at  *)
(* most one: None is << >> and Some(x) is << x >>.  A BTreeMap<String,     *)
(* String> is a function whose domain is its key set; its iteration order  *)
(* is the byte order of the keys.                                          *)
(***************************************************************************)
EXTENDS Integers, Sequences, FiniteSets, TLC

VARIABLES
    ingress,        \* the watched Ingress object handed to reconcile
    args,           \* ctx.args: the parsed I2GArgs
    services,       \* the Service objects of the Ingress namespace (live cluster state)
    is_leader,      \* ctx.is_leader: the shared AtomicBool
    lease_holder,   \* who holds the Lease "i2g-operator-lock" in the cluster
    lease_ret,      \* the answer of the lease call lease_renew has not matched on yet
    fail_streak,    \* observation: consecutive failed lease calls so far (saturating)
    flag_before,    \* observation: is_leader when the current run of failures began
    rec_pc,         \* where the reconcile call is: idle, loop, applying, returned
    rule_idx,       \* index of the host rule the for loop of reconcile is at
    rule_reads,     \* what the reads of a Service made so far for the current rule found
    pending,        \* routes built for the current rule and not yet applied
    rec_result,     \* what the last finished reconcile gave the dispatcher
    pass_log,       \* observation: what the current pass did, rule by rule
    n_errors,       \* observation: reconciles that ended in an error so far (saturating)
    store,          \* the HTTPRoute / TCPRoute objects in the cluster
    done_names,     \* observation: the object names of the last pass that ended in Done
    proc,           \* main and its two futures: where main is, what became of each future
    fn_call,        \* a call of one of the program's functions on its own: name and argument
    fn_ret          \* the value that call returned, None before it returns

vars == <<ingress, args, services, is_leader, lease_holder, lease_ret, fail_streak,
          flag_before, rec_pc, rule_idx, rule_reads, pending, rec_result,
          pass_log, n_errors, store, done_names, proc, fn_call, fn_ret>>

---------------------------------------------------------------------------
(* Bounds of the model.                                                    *)

\* longest rule list of an input Ingress
MaxRules == 2
\* cap of the observation counter fail_streak
MaxStreak == 2
\* cap of the observation counter n_errors
MaxErrors == 2

---------------------------------------------------------------------------
(* Option<T>.                                                              *)

None == << >>
Some(x) == << x >>
IsSome(o) == Len(o) = 1
IsNone(o) == Len(o) = 0
Unwrap(o) == o[1]
UnwrapOr(o, d) == IF IsSome(o) THEN o[1] ELSE d

---------------------------------------------------------------------------
(* Characters and strings.                                                 *)

LowerChars == <<"a","b","c","d","e","f","g","h","i","j","k","l","m","n","o","p","q","r","s","t","u","v","w","x","y","z">>
UpperChars == <<"A","B","C","D","E","F","G","H","I","J","K","L","M","N","O","P","Q","R","S","T","U","V","W","X","Y","Z">>
DigitChars == <<"0","1","2","3","4","5","6","7","8","9">>

\* The characters of the model's strings in byte order (String's Ord).
ByteOrder ==
    <<" ", "*", "+", "-", ".", "/">> \o DigitChars \o <<"=">> \o UpperChars
        \o <<"_">> \o LowerChars \o <<"~">>

Range(s) == { s[i] : i \in DOMAIN s }
IndexOf(seq, c) == CHOOSE i \in DOMAIN seq : seq[i] = c

IsAlnum(c) == c \in Range(LowerChars) \cup Range(UpperChars) \cup Range(DigitChars)
IsWhitespace(c) == c = " "

\* str::to_lowercase, character by character
ToLowerChar(c) ==
    IF c \in Range(UpperChars) THEN LowerChars[IndexOf(UpperChars, c)] ELSE c
to_lowercase(s) == [ i \in DOMAIN s |-> ToLowerChar(s[i]) ]

CharLess(a, b) == IndexOf(ByteOrder, a) < IndexOf(ByteOrder, b)

\* String's Ord: lexicographic in byte order, a proper prefix first
RECURSIVE StrLess(_, _)
StrLess(a, b) ==
    IF b = << >> THEN FALSE
    ELSE IF a = << >> THEN TRUE
    ELSE IF a[1] = b[1] THEN StrLess(Tail(a), Tail(b))
    ELSE CharLess(a[1], b[1])

starts_with(s, prefix) ==
    /\ Len(prefix) <= Len(s)
    /\ SubSeq(s, 1, Len(prefix)) = prefix

ends_with(s, c) == s # << >> /\ s[Len(s)] = c

\* str::trim_start_matches / trim_end_matches for a one-character pattern
RECURSIVE trim_start_matches(_, _)
trim_start_matches(s, c) ==
    IF s # << >> /\ s[1] = c THEN trim_start_matches(Tail(s), c) ELSE s
RECURSIVE trim_end_matches(_, _)
trim_end_matches(s, c) ==
    IF s # << >> /\ s[Len(s)] = c
    THEN trim_end_matches(SubSeq(s, 1, Len(s) - 1), c) ELSE s

\* str::trim: leading and trailing whitespace
RECURSIVE trim(_)
trim(s) ==
    IF s # << >> /\ IsWhitespace(s[1]) THEN trim(Tail(s))
    ELSE IF s # << >> /\ IsWhitespace(s[Len(s)]) THEN trim(SubSeq(s, 1, Len(s) - 1))
    ELSE s

\* str::split("/").last(): the text after the last "/", the whole string if none
RECURSIVE AfterLastSlash(_)
AfterLastSlash(s) ==
    IF \E i \in DOMAIN s : s[i] = "/"
    THEN AfterLastSlash(Tail(s))
    ELSE s

\* str::split_once('='): the text before and after the first "="
split_once_eq(s) ==
    IF \E i \in DOMAIN s : s[i] = "="
    THEN LET i == CHOOSE k \in DOMAIN s :
                    s[k] = "=" /\ \A j \in 1..(k - 1) : s[j] # "="
         IN  Some(<<SubSeq(s, 1, i - 1), SubSeq(s, i + 1, Len(s))>>)
    ELSE None

---------------------------------------------------------------------------
(* Result<T, E>.                                                           *)

Ok(v) == [ok |-> TRUE, val |-> v]
Err(e) == [ok |-> FALSE, err |-> e]

---------------------------------------------------------------------------
(* src/src/consts.rs: the annotation keys.                                 *)

SPLIT_ROUTES == <<"i","2","g","-","o","p","e","r","a","t","o","r","/","s","p","l","i","t","-","p","a","t","h","s">>
TRANSLATE_INGRESS == <<"i","2","g","-","o","p","e","r","a","t","o","r","/","t","r","a","n","s","l","a","t","e">>
GATEWAY_NAME == <<"i","2","g","-","o","p","e","r","a","t","o","r","/","g","a","t","e","w","a","y","-","n","a","m","e">>
GATEWAY_NAMESPACE == <<"i","2","g","-","o","p","e","r","a","t","o","r","/","g","a","t","e","w","a","y","-","n","a","m","e","s","p","a","c","e">>
DESIRED_SECTION == <<"i","2","g","-","o","p","e","r","a","t","o","r","/","s","e","c","t","i","o","n","-","n","a","m","e">>
\* main.rs names consts::HEADER_FILTERS_PREFIX and consts::QUERY_FILTERS_PREFIX,
\* which consts.rs as given does not define; the keys follow the specification's
\* "header-filter-prefix/<weight>" and "query-filter-prefix/<weight>".
HEADER_FILTERS_PREFIX == <<"i","2","g","-","o","p","e","r","a","t","o","r","/","h","e","a","d","e","r","-","f","i","l","t","e","r","/">>
QUERY_FILTERS_PREFIX == <<"i","2","g","-","o","p","e","r","a","t","o","r","/","q","u","e","r","y","-","f","i","l","t","e","r","/">>

\* BTreeMap::get
MapGet(m, k) == IF k \in DOMAIN m THEN Some(m[k]) ELSE None

\* meta.annotations.as_ref().and_then(|ann| ann.get(key))
Annotation(meta, key) ==
    IF IsSome(meta.annotations) THEN MapGet(Unwrap(meta.annotations), key) ELSE None

\* BTreeMap::iter: the keys in ascending order
RECURSIVE SortedKeys(_)
SortedKeys(S) ==
    IF S = {} THEN << >>
    ELSE LET m == CHOOSE x \in S : \A y \in S \ {x} : StrLess(x, y)
         IN  <<m>> \o SortedKeys(S \ {m})

---------------------------------------------------------------------------
(* src/src/utils.rs                                                        *)

RECURSIVE DropNonAlnum(_)
DropNonAlnum(s) ==
    IF s # << >> /\ ~IsAlnum(s[1]) THEN DropNonAlnum(Tail(s)) ELSE s

\* the pattern without its "+": every character that is not an ASCII letter
\* or digit becomes a "-" of its own
regex_replace_all_each_character(s) ==
    [ i \in DOMAIN s |-> IF IsAlnum(s[i]) THEN s[i] ELSE "-" ]

\* Regex::new("[^a-zA-Z0-9]+").replace_all(s, "-"): every maximal run of
\* characters that are not ASCII letters or digits becomes one "-"
RECURSIVE regex_replace_all(_)
regex_replace_all(s) ==
    IF s = << >> THEN << >>
    ELSE IF IsAlnum(s[1]) THEN <<s[1]>> \o regex_replace_all(Tail(s))
    ELSE <<"-">> \o regex_replace_all(DropNonAlnum(Tail(s)))

sanitize_hostname(hostname) ==
    LET sanitized_str == regex_replace_all(hostname)
        res == trim_end_matches(trim_start_matches(trim(sanitized_str), "-"), "-")
    IN  IF res = << >> \/ res = <<"*">>
        THEN <<"a","l","l","-","h","o","s","t","s">>
        ELSE res

\* add_owner without the test for a reference of the same uid
add_owner_without_uid_test(meta, owner) ==
    [meta EXCEPT !.owner_references =
        Some(Append(UnwrapOr(meta.owner_references, << >>),
                    [api_version |-> "networking.k8s.io/v1",
                     kind |-> "Ingress",
                     name |-> owner.metadata.name,
                     uid |-> Unwrap(owner.metadata.uid),
                     controller |-> None,
                     block_owner_deletion |-> Some(FALSE)]))]

\* ObjectMeta::add_owner: the owner reference of `owner`, unless one with its
\* uid is already in the list
add_owner(meta, owner) ==
    LET owners == UnwrapOr(meta.owner_references, << >>)
        ref == [api_version |-> "networking.k8s.io/v1",
                kind |-> "Ingress",
                name |-> owner.metadata.name,
                uid |-> Unwrap(owner.metadata.uid),
                controller |-> None,
                block_owner_deletion |-> Some(FALSE)]
    IN  IF \E i \in DOMAIN owners : owners[i].uid = ref.uid
        THEN [meta EXCEPT !.owner_references = Some(owners)]
        ELSE [meta EXCEPT !.owner_references = Some(Append(owners, ref))]

---------------------------------------------------------------------------
(* src/src/value_filters.rs                                                *)

\* i32 bounds of str::parse::<i32>
I32Max == 2147483647

\* the digit loop of i32::from_str: checked multiply and add (subtract for a
\* negative number), None on overflow
RECURSIVE ParseDigits(_, _, _)
ParseDigits(s, acc, negative) ==
    IF s = << >> THEN Some(acc)
    ELSE LET d == IndexOf(DigitChars, s[1]) - 1
         IN  IF ~negative
             THEN IF acc > (I32Max - d) \div 10 THEN None
                  ELSE ParseDigits(Tail(s), acc * 10 + d, negative)
             ELSE IF acc = 0 - I32Max - 1 THEN None
                  ELSE IF 0 - acc > (I32Max - (IF d = 0 THEN 0 ELSE d - 1)) \div 10 THEN None
                  ELSE ParseDigits(Tail(s), acc * 10 - d, negative)

\* str::parse::<i32>().ok(): an optional sign, then at least one digit, in range
parse_i32(s) ==
    LET signed == s # << >> /\ s[1] \in {"+", "-"}
        digits == IF signed THEN Tail(s) ELSE s
    IN  IF digits = << >> \/ \E i \in DOMAIN digits : digits[i] \notin Range(DigitChars)
        THEN None
        ELSE ParseDigits(digits, 0, s[1] = "-")

\* impl FromStr for MatchRule
MatchRule_from_str(rule) ==
    LET sp == split_once_eq(rule)
    IN  IF IsNone(sp) THEN Err("Invalid rule found")
        ELSE LET key == Unwrap(sp)[1]
                 value == Unwrap(sp)[2]
             IN  IF ends_with(key, "~")
                 THEN Ok([key |-> SubSeq(key, 1, Len(key) - 1), value |-> value,
                          match_type |-> "RegularExpression"])
                 ELSE Ok([key |-> key, value |-> value, match_type |-> "Equal"])

\* slice::sort_by on the weight: stable, so equal weights keep their order
RECURSIVE StableInsert(_, _)
StableInsert(sorted, e) ==
    IF sorted = << >> THEN <<e>>
    ELSE IF e[1] < sorted[1][1] THEN <<e>> \o sorted
    ELSE <<sorted[1]>> \o StableInsert(Tail(sorted), e)
\* the rules left in the order they were pushed
sort_by_weight_left_in_key_order(rules) == rules

RECURSIVE sort_by_weight(_)
sort_by_weight(rules) ==
    IF rules = << >> THEN << >>
    ELSE StableInsert(sort_by_weight(SubSeq(rules, 1, Len(rules) - 1)),
                      rules[Len(rules)])

\* the for loop of from_annotations over the keys in map order
RECURSIVE WeightedRules(_, _, _)
WeightedRules(annotations, keys, prefix) ==
    IF keys = << >> THEN << >>
    ELSE LET name == keys[1]
             rest == WeightedRules(annotations, Tail(keys), prefix)
             weight == parse_i32(AfterLastSlash(name))
             parsed == MatchRule_from_str(annotations[name])
         IN  IF ~starts_with(name, prefix) THEN rest
             ELSE IF IsNone(weight) THEN rest
             ELSE IF parsed.ok THEN << <<Unwrap(weight), parsed.val>> >> \o rest
             ELSE rest

\* MatcherList::from_annotations
from_annotations(annotations, prefix) ==
    LET rules == sort_by_weight(
                    WeightedRules(annotations, SortedKeys(DOMAIN annotations), prefix))
    IN  [ i \in DOMAIN rules |-> rules[i][2] ]

\* the groups of a MatcherList in the order their keys first appear
RECURSIVE GroupsFirstSeen(_)
GroupsFirstSeen(list) ==
    IF list = << >> THEN << >>
    ELSE LET k == list[1].key
         IN  << SelectSeq(list, LAMBDA r : r.key = k) >>
                \o GroupsFirstSeen(SelectSeq(list, LAMBDA r : r.key # k))

Orderings(seq) ==
    { [ i \in DOMAIN seq |-> seq[p[i]] ] :
        p \in { q \in [DOMAIN seq -> DOMAIN seq] :
                    \A i, j \in DOMAIN seq : i # j => q[i] # q[j] } }

\* MatcherList::make_groups: HashMap::into_values yields the groups in an
\* order the program does not fix, so every order is a possible result
make_groups(list) == Orderings(GroupsFirstSeen(list))

PrependEach(x, prods) == [ i \in DOMAIN prods |-> <<x>> \o prods[i] ]
RECURSIVE ConcatMap(_, _)
ConcatMap(xs, prods) ==
    IF xs = << >> THEN << >>
    ELSE PrependEach(xs[1], prods) \o ConcatMap(Tail(xs), prods)

\* permutator::cartesian_product: one element of each domain, the last domain
\* varying fastest
RECURSIVE cartesian_product(_)
cartesian_product(domains) ==
    IF domains = << >> THEN << << >> >>
    ELSE ConcatMap(domains[1], cartesian_product(Tail(domains)))

\* the product without the early return for a list without groups
ProductOfGroups_without_early_return(groups) == cartesian_product(groups)

\* MatcherList::catesian_product for one order of the groups
ProductOfGroups(groups) ==
    IF groups = << >> THEN << >> ELSE cartesian_product(groups)

\* MatcherList::catesian_product: the possible results
catesian_product(list) == { ProductOfGroups(g) : g \in make_groups(list) }

---------------------------------------------------------------------------
(* src/src/main.rs: the route builders.                                    *)

\* get_svc_port_number: the number as given, else the named port looked up in
\* the Service as the cluster holds it now; `svcs` is what Api::get returns
\* for each Service name (None: not found, or the read failed)
get_svc_port_number(svcs, svc_name, port_def) ==
    IF IsSome(port_def.number) THEN Some(Unwrap(port_def.number))
    ELSE IF IsNone(port_def.name) THEN None
    ELSE LET port_name == Unwrap(port_def.name)
             svc == IF svc_name \in DOMAIN svcs THEN svcs[svc_name] ELSE None
             spec == IF IsSome(svc) THEN Unwrap(svc).spec ELSE None
             ports == IF IsSome(spec) THEN Unwrap(spec).ports ELSE None
             found == IF IsSome(ports)
                      THEN SelectSeq(Unwrap(ports), LAMBDA q : q.name = Some(port_name))
                      ELSE << >>
         IN  IF found = << >> THEN None ELSE Some(found[1].port)

\* the expansion that pairs the products of one side only, the header side
\* when it has any
RulesetsFor_one_side_only(headers_cart, query_cart) ==
    IF headers_cart = << >>
    THEN [ i \in DOMAIN query_cart |-> <<None, Some(query_cart[i])>> ]
    ELSE [ i \in DOMAIN headers_cart |-> <<Some(headers_cart[i]), None>> ]

\* the three return statements of create_match_rulesets after the two
\* products are computed, and the permutator call crossing them
RulesetsFor(headers_cart, query_cart) ==
    IF headers_cart = << >> /\ query_cart = << >> THEN << <<None, None>> >>
    ELSE IF headers_cart = << >>
    THEN [ i \in DOMAIN query_cart |-> <<None, Some(query_cart[i])>> ]
    ELSE IF query_cart = << >>
    THEN [ i \in DOMAIN headers_cart |-> <<Some(headers_cart[i]), None>> ]
    ELSE LET prods == cartesian_product(<<headers_cart, query_cart>>)
             res == [ i \in DOMAIN prods |->
                        << IF prods[i][1] = << >> THEN None ELSE Some(prods[i][1]),
                           IF prods[i][2] = << >> THEN None ELSE Some(prods[i][2]) >> ]
         IN  IF res = << >> THEN << <<None, None>> >> ELSE res

\* create_match_rulesets: the possible results, one per order of the groups
create_match_rulesets(route_info) ==
    LET hs == IF IsSome(route_info.header_matchers)
              THEN catesian_product(Unwrap(route_info.header_matchers))
              ELSE { << >> }
        qs == IF IsSome(route_info.query_matchers)
              THEN catesian_product(Unwrap(route_info.query_matchers))
              ELSE { << >> }
    IN  { RulesetsFor(h, q) : h \in hs, q \in qs }

\* impl From<MatchType> for HTTPRouteRulesMatchesHeadersType / ...QueryParamsType
MatchTypeInto(match_type) ==
    IF match_type = "Equal" THEN "Exact" ELSE "RegularExpression"

\* impl From<HeadersMatchersList> for Vec<HTTPRouteRulesMatchesHeaders>
\* impl From<QueryMatchersList> for Vec<HTTPRouteRulesMatchesQueryParams>
MatchersInto(list) ==
    [ i \in DOMAIN list |->
        [name |-> list[i].key, type |-> Some(MatchTypeInto(list[i].match_type)),
         value |-> list[i].value] ]

OptionMap(o, Op(_)) == IF IsSome(o) THEN Some(Op(Unwrap(o))) ELSE None

\* the map of path types with a fallback to PathPrefix for a string it does
\* not know: a fault C14 detects
PathMatchType_open(path_type) ==
    CASE path_type = "Exact" -> Some("Exact")
      [] OTHER -> Some("PathPrefix")

\* the closed map of path types
PathMatchType(path_type) ==
    CASE path_type = "Prefix" -> Some("PathPrefix")
      [] path_type = "Exact" -> Some("Exact")
      [] path_type = "ImplementationSpecific" -> Some("PathPrefix")
      [] OTHER -> None

\* one rule per path, for the first matcher variant only: a fault C15 detects
RulesOfPath_first_variant_only(path, svc, svc_port_number, match_type, match_ruleset) ==
    << [backend_refs |-> Some(<< [name |-> svc.name, port |-> Some(svc_port_number)] >>),
        matches |-> Some(<< [headers |-> OptionMap(match_ruleset[1][1], MatchersInto),
                             query_params |-> OptionMap(match_ruleset[1][2], MatchersInto),
                             path |-> Some([type |-> Some(match_type),
                                            value |-> path.path])] >>)] >>

\* the inner loop of create_http_routes: one rule per matcher variant
RulesOfPath(path, svc, svc_port_number, match_type, match_ruleset) ==
    [ i \in DOMAIN match_ruleset |->
        [backend_refs |-> Some(<< [name |-> svc.name, port |-> Some(svc_port_number)] >>),
         matches |-> Some(<< [headers |-> OptionMap(match_ruleset[i][1], MatchersInto),
                              query_params |-> OptionMap(match_ruleset[i][2], MatchersInto),
                              path |-> Some([type |-> Some(match_type),
                                             value |-> path.path])] >>)] ]

\* get_svc_port_number awaits Api::get only for a port without number that
\* has a name
ReadsPort(port_def) == IsNone(port_def.number) /\ IsSome(port_def.name)

\* A builder awaits each Api::get, and the Service may change before the
\* next one: `svcs` of a builder is the sequence of what its reads find, in
\* the order of the reads, the last element standing for every further read.
\* AfterRead is what is left of it once get_svc_port_number has returned.
AfterRead(svcs, port_def) ==
    IF ReadsPort(port_def) /\ Len(svcs) > 1 THEN Tail(svcs) ELSE svcs

\* the loop over http.paths returning an error for a port that does not
\* resolve, where the code has `continue`
RECURSIVE PathLoop_unresolved_port_fails_host(_, _, _, _)
PathLoop_unresolved_port_fails_host(svcs, paths, match_ruleset, rules) ==
    IF paths = << >> THEN Ok(rules)
    ELSE LET path == paths[1]
             rest == Tail(paths)
         IN  IF IsNone(path.backend.service)
             THEN PathLoop_unresolved_port_fails_host(svcs, rest, match_ruleset, rules)
             ELSE LET svc == Unwrap(path.backend.service)
                  IN  IF IsNone(svc.port)
                      THEN PathLoop_unresolved_port_fails_host(svcs, rest, match_ruleset, rules)
                      ELSE LET num == get_svc_port_number(Head(svcs), svc.name, Unwrap(svc.port))
                               mt == PathMatchType(path.path_type)
                           IN  IF IsNone(num) THEN Err("Couldn't resolve port")
                               ELSE IF IsNone(mt) THEN Err("Unknown path type")
                               ELSE PathLoop_unresolved_port_fails_host(AfterRead(svcs, Unwrap(svc.port)), rest, match_ruleset,
                                        rules \o RulesOfPath(path, svc, Unwrap(num),
                                                             Unwrap(mt), match_ruleset))

\* the loop of create_http_routes over http.paths
RECURSIVE PathLoop(_, _, _, _)
PathLoop(svcs, paths, match_ruleset, rules) ==
    IF paths = << >> THEN Ok(rules)
    ELSE LET path == paths[1]
             rest == Tail(paths)
         IN  IF IsNone(path.backend.service)
             THEN PathLoop(svcs, rest, match_ruleset, rules)
             ELSE LET svc == Unwrap(path.backend.service)
                  IN  IF IsNone(svc.port)
                      THEN PathLoop(svcs, rest, match_ruleset, rules)
                      ELSE LET num == get_svc_port_number(Head(svcs), svc.name, Unwrap(svc.port))
                               mt == PathMatchType(path.path_type)
                           IN  IF IsNone(num)
                               THEN PathLoop(AfterRead(svcs, Unwrap(svc.port)), rest, match_ruleset, rules)
                               ELSE IF IsNone(mt) THEN Err("Unknown path type")
                               ELSE PathLoop(AfterRead(svcs, Unwrap(svc.port)), rest, match_ruleset,
                                        rules \o RulesOfPath(path, svc, Unwrap(num),
                                                             Unwrap(mt), match_ruleset))

ParentRefs(route_info) ==
    Some(<< [group |-> Some("gateway.networking.k8s.io"),
             kind |-> Some("Gateway"),
             name |-> route_info.gw_name,
             namespace |-> Some(route_info.gw_namespace),
             port |-> None,
             section_name |-> route_info.section_name] >>)

\* HTTPRoute::new given a name that carries a running number, as a generated
\* name would: a fault C11 detects
NewRoute_numbered(kind, name, spec) ==
    [kind |-> kind,
     metadata |-> [name |-> name \o <<"-", DigitChars[n_errors + 1]>>,
                   owner_references |-> None],
     spec |-> spec]

\* HTTPRoute::new / TCPRoute::new
NewRoute(kind, name, spec) ==
    [kind |-> kind, metadata |-> [name |-> name, owner_references |-> None], spec |-> spec]

\* the suffix taken from the path value as it is, without sanitize_hostname:
\* a fault C13 detects
SplitSuffix_unsanitized(rule) ==
    LET m == UnwrapOr(rule.matches, << >>)
        p == IF m = << >> THEN None ELSE m[1].path
        v == IF IsSome(p) THEN Unwrap(p).value ELSE None
    IN  UnwrapOr(v, <<"r","o","o","t">>)

\* name suffix of a rule's own object when split_routes is on
SplitSuffix(rule) ==
    LET m == UnwrapOr(rule.matches, << >>)
        p == IF m = << >> THEN None ELSE m[1].path
        v == IF IsSome(p) THEN Unwrap(p).value ELSE None
    IN  sanitize_hostname(UnwrapOr(v, <<"r","o","o","t">>))

\* create_http_routes giving every object of split mode the whole rule list
\* instead of its own rule: a fault C12 detects
HttpRoutesFor_split_keeps_all_rules(svcs, route_info, http, match_ruleset) ==
    LET safe_hostname == sanitize_hostname(route_info.hostname)
        ann == Annotation(route_info.ingress_meta, SPLIT_ROUTES)
        split_routes == IF IsSome(ann)
                        THEN to_lowercase(Unwrap(ann)) = <<"t","r","u","e">>
                        ELSE FALSE
        built == PathLoop(svcs, http.paths, match_ruleset, << >>)
    IN  IF ~built.ok THEN built
        ELSE IF built.val = << >> THEN Err("No valid paths found")
        ELSE IF split_routes
        THEN Ok([ i \in DOMAIN built.val |->
                    NewRoute("HTTPRoute",
                        route_info.ingress_name \o <<"-">> \o safe_hostname \o <<"-">>
                            \o SplitSuffix(built.val[i]),
                        [hostnames |-> Some(<<route_info.hostname>>),
                         parent_refs |-> ParentRefs(route_info),
                         rules |-> Some(built.val)]) ])
        ELSE Ok(<< NewRoute("HTTPRoute",
                        route_info.ingress_name \o <<"-">> \o safe_hostname
                            \o <<"-","h","t","t","p">>,
                        [hostnames |-> Some(<<route_info.hostname>>),
                         parent_refs |-> ParentRefs(route_info),
                         rules |-> Some(built.val)]) >>)

\* create_http_routes for one value of create_match_rulesets
HttpRoutesFor(svcs, route_info, http, match_ruleset) ==
    LET safe_hostname == sanitize_hostname(route_info.hostname)
        ann == Annotation(route_info.ingress_meta, SPLIT_ROUTES)
        split_routes == IF IsSome(ann)
                        THEN to_lowercase(Unwrap(ann)) = <<"t","r","u","e">>
                        ELSE FALSE
        built == PathLoop(svcs, http.paths, match_ruleset, << >>)
    IN  IF ~built.ok THEN built
        ELSE IF built.val = << >> THEN Err("No valid paths found")
        ELSE IF split_routes
        THEN Ok([ i \in DOMAIN built.val |->
                    NewRoute("HTTPRoute",
                        route_info.ingress_name \o <<"-">> \o safe_hostname \o <<"-">>
                            \o SplitSuffix(built.val[i]),
                        [hostnames |-> Some(<<route_info.hostname>>),
                         parent_refs |-> ParentRefs(route_info),
                         rules |-> Some(<<built.val[i]>>)]) ])
        ELSE Ok(<< NewRoute("HTTPRoute",
                        route_info.ingress_name \o <<"-">> \o safe_hostname
                            \o <<"-","h","t","t","p">>,
                        [hostnames |-> Some(<<route_info.hostname>>),
                         parent_refs |-> ParentRefs(route_info),
                         rules |-> Some(built.val)]) >>)

\* create_http_routes: the possible results
create_http_routes(svcs, route_info, http) ==
    { HttpRoutesFor(svcs, route_info, http, m) : m \in create_match_rulesets(route_info) }

create_tcp_routes(svcs, route_info, svc) ==
    LET safe_hostname == sanitize_hostname(route_info.hostname)
    IN  IF IsNone(svc.port) THEN Err("Backend doesn't have port")
        ELSE LET num == get_svc_port_number(Head(svcs), svc.name, Unwrap(svc.port))
             IN  IF IsNone(num) THEN Err("Couldn't resolve port for a service")
                 ELSE Ok(NewRoute("TCPRoute",
                        route_info.ingress_name \o <<"-">> \o safe_hostname
                            \o <<"-","t","c","p">>,
                        [use_default_gateways |-> None,
                         rules |-> << [name |-> None,
                                       backend_refs |-> << [name |-> svc.name,
                                                            port |-> Some(Unwrap(num))] >>] >>,
                         parent_refs |-> ParentRefs(route_info)]))

---------------------------------------------------------------------------
(* src/src/main.rs: reconcile and on_error.                                *)

\* kube::runtime::controller::Action::requeue(Duration::from_secs(secs))
Action_requeue(secs) == [requeue_after |-> secs]

\* skip_translation comparing the annotation with "true" as written, without
\* to_lowercase: a fault C5 detects
skip_translation_case_sensitive(ing, a) ==
    LET ann == Annotation(ing.metadata, TRANSLATE_INGRESS)
    IN  IF IsSome(ann)
        THEN Unwrap(ann) # <<"t","r","u","e">>
        ELSE a.skip_by_default

\* let skip_translation = ... in reconcile
skip_translation(ing, a) ==
    LET ann == Annotation(ing.metadata, TRANSLATE_INGRESS)
    IN  IF IsSome(ann)
        THEN to_lowercase(Unwrap(ann)) # <<"t","r","u","e">>
        ELSE a.skip_by_default

\* the three ok_or / ok_or_else checks of reconcile, in their order
validate(ing) ==
    IF IsNone(ing.spec) THEN Err("Ingres doesn't have spec section")
    ELSE IF IsNone(Unwrap(ing.spec).rules) THEN Err("Ingress doesn't have any routing rules")
    ELSE IF IsNone(ing.metadata.namespace) THEN Err("Ingress doesn't have a namespace")
    ELSE Ok(Unwrap(Unwrap(ing.spec).rules))

\* reconcile_prologue without the leadership check: a fault C1 detects
reconcile_prologue_no_leader_check(ing, a, leader) ==
    IF skip_translation(ing, a)
    THEN [returns |-> TRUE, site |-> "Skipped", result |-> Ok(Action_requeue(60))]
    ELSE IF ~validate(ing).ok
    THEN [returns |-> TRUE, site |-> "Error", result |-> validate(ing)]
    ELSE [returns |-> FALSE, site |-> "Loop", result |-> validate(ing)]

\* reconcile up to its for loop: the leadership check, the skip decision and
\* the validation.  `leader` is the value ctx.is_leader.load() returned.
\* returns: whether reconcile returns here; site: the return statement.
reconcile_prologue(ing, a, leader) ==
    IF ~leader
    THEN [returns |-> TRUE, site |-> "NotLeader", result |-> Ok(Action_requeue(20))]
    ELSE IF skip_translation(ing, a)
    THEN [returns |-> TRUE, site |-> "Skipped", result |-> Ok(Action_requeue(60))]
    ELSE IF ~validate(ing).ok
    THEN [returns |-> TRUE, site |-> "Error", result |-> validate(ing)]
    ELSE [returns |-> FALSE, site |-> "Loop", result |-> validate(ing)]

\* the last statement of reconcile
reconcile_epilogue == Ok(Action_requeue(10))

\* on_error with a delay that grows with the errors seen: a fault C9 detects
on_error_backoff(obj, err, a) == Action_requeue(30 * (n_errors + 1))

on_error(obj, err, a) == Action_requeue(30)

\* the RouteInputInfo with the gateway name of the arguments whatever the
\* Ingress is annotated with: a fault C25 detects
RouteInfo_gateway_name_of_arguments(ing, a, host) ==
    LET meta == ing.metadata
        annotations == meta.annotations
    IN  [ingress_name |-> meta.name,
         ingress_meta |-> meta,
         ingress_namespace |-> Unwrap(meta.namespace),
         gw_name |-> a.default_gateway_name,
         gw_namespace |-> UnwrapOr(Annotation(meta, GATEWAY_NAMESPACE),
                                   a.default_gateway_namespace),
         section_name |-> Annotation(meta, DESIRED_SECTION),
         hostname |-> host,
         header_matchers |->
            IF IsSome(annotations)
            THEN Some(from_annotations(Unwrap(annotations), HEADER_FILTERS_PREFIX))
            ELSE None,
         query_matchers |->
            IF IsSome(annotations)
            THEN Some(from_annotations(Unwrap(annotations), QUERY_FILTERS_PREFIX))
            ELSE None]

\* the RouteInputInfo reconcile builds for one rule
RouteInfo(ing, a, host) ==
    LET meta == ing.metadata
        annotations == meta.annotations
    IN  [ingress_name |-> meta.name,
         ingress_meta |-> meta,
         ingress_namespace |-> Unwrap(meta.namespace),
         gw_name |-> UnwrapOr(Annotation(meta, GATEWAY_NAME), a.default_gateway_name),
         gw_namespace |-> UnwrapOr(Annotation(meta, GATEWAY_NAMESPACE),
                                   a.default_gateway_namespace),
         section_name |-> Annotation(meta, DESIRED_SECTION),
         hostname |-> host,
         header_matchers |->
            IF IsSome(annotations)
            THEN Some(from_annotations(Unwrap(annotations), HEADER_FILTERS_PREFIX))
            ELSE None,
         query_matchers |->
            IF IsSome(annotations)
            THEN Some(from_annotations(Unwrap(annotations), QUERY_FILTERS_PREFIX))
            ELSE None]

\* the loop body building the TCPRoute of a rule without http whether or not
\* --experimental is set
RuleOutcomes_without_experimental_test(ing, a, svcs, rule) ==
    IF IsNone(rule.host) THEN { [skip |-> TRUE, why |-> "no_host", routes |-> << >>] }
    ELSE LET route_info == RouteInfo(ing, a, Unwrap(rule.host))
             default_backend == Unwrap(ing.spec).default_backend
         IN  IF IsSome(rule.http)
             THEN { IF r.ok THEN [skip |-> FALSE, why |-> "built", routes |-> r.val]
                    ELSE [skip |-> TRUE, why |-> "build_failed", routes |-> << >>] :
                    r \in create_http_routes(svcs, route_info, Unwrap(rule.http)) }
             ELSE IF IsNone(default_backend)
             THEN { [skip |-> TRUE, why |-> "no_default_backend", routes |-> << >>] }
             ELSE IF IsNone(Unwrap(default_backend).service)
             THEN { [skip |-> TRUE, why |-> "no_backend_service", routes |-> << >>] }
             ELSE LET r == create_tcp_routes(svcs, route_info,
                                             Unwrap(Unwrap(default_backend).service))
                  IN  { IF r.ok THEN [skip |-> FALSE, why |-> "built", routes |-> <<r.val>>]
                        ELSE [skip |-> TRUE, why |-> "build_failed", routes |-> << >>] }

\* the body of the for loop of reconcile for one rule, up to the first patch
\* call: the possible outcomes.  skip: the rule is left (continue), with the
\* reason; otherwise routes: the objects to apply, in order.
RuleOutcomes(ing, a, svcs, rule) ==
    IF IsNone(rule.host) THEN { [skip |-> TRUE, why |-> "no_host", routes |-> << >>] }
    ELSE LET route_info == RouteInfo(ing, a, Unwrap(rule.host))
             default_backend == Unwrap(ing.spec).default_backend
         IN  IF IsSome(rule.http)
             THEN { IF r.ok THEN [skip |-> FALSE, why |-> "built", routes |-> r.val]
                    ELSE [skip |-> TRUE, why |-> "build_failed", routes |-> << >>] :
                    r \in create_http_routes(svcs, route_info, Unwrap(rule.http)) }
             ELSE IF ~a.experimental
             THEN { [skip |-> TRUE, why |-> "not_experimental", routes |-> << >>] }
             ELSE IF IsNone(default_backend)
             THEN { [skip |-> TRUE, why |-> "no_default_backend", routes |-> << >>] }
             ELSE IF IsNone(Unwrap(default_backend).service)
             THEN { [skip |-> TRUE, why |-> "no_backend_service", routes |-> << >>] }
             ELSE LET r == create_tcp_routes(svcs, route_info,
                                             Unwrap(Unwrap(default_backend).service))
                  IN  { IF r.ok THEN [skip |-> FALSE, why |-> "built", routes |-> <<r.val>>]
                        ELSE [skip |-> TRUE, why |-> "build_failed", routes |-> << >>] }

\* a TCPRoute patch call under a field manager of its own: a fault C10 detects
TCP_FIELD_MANAGER_own == "ingress-to-gateway-controller-tcp"

\* the field_manager of the two patch calls
HTTP_FIELD_MANAGER == "ingress-to-gateway-controller"
TCP_FIELD_MANAGER == "ingress-to-gateway-controller"

\* the PatchParams of the patch call for a route of this kind
PatchParamsOf(kind) ==
    [field_manager |-> Some(IF kind = "HTTPRoute" THEN HTTP_FIELD_MANAGER
                            ELSE TCP_FIELD_MANAGER),
     force |-> FALSE]

\* if ctx.args.link_to_ingress { route.meta_mut().add_owner(ingress) }
Linked(ing, a, route) ==
    IF a.link_to_ingress
    THEN [route EXCEPT !.metadata = add_owner(@, ing)]
    ELSE route

\* The cluster's answer to a successful Patch::Apply (server-side apply) of
\* `route` in namespace ns under params: the object of that kind and name is
\* created, or replaced by the applied content, and the field manager is
\* recorded among its managers.
ObjKey(ns, route) == <<route.kind, ns, route.metadata.name>>
ServerSideApply(st, ns, route, params) ==
    LET key == ObjKey(ns, route)
        old == IF key \in DOMAIN st THEN st[key].managers ELSE {}
        new == [obj |-> route, managers |-> old \cup {Unwrap(params.field_manager)}]
    IN  [ k \in DOMAIN st \cup {key} |-> IF k = key THEN new ELSE st[k] ]

\* what the controller does with the value reconcile returned: Ok(action) is
\* scheduled as it is, Err(e) goes through on_error
Dispatched(ing, a, site, result) ==
    [site |-> site,
     ok |-> result.ok,
     err |-> IF result.ok THEN "" ELSE result.err,
     action |-> IF result.ok THEN result.val ELSE on_error(ing, result.err, a)]

---------------------------------------------------------------------------
(* src/src/main.rs: lease_renew.                                           *)

\* LeaseLock::try_acquire_or_renew as lease_renew sees it: the call fails and
\* changes nothing, or it succeeds: the lease is created, taken over when it
\* has expired, or renewed when this holder has it (acquired_lease = true), and
\* left alone when another holder has it (acquired_lease = false).
\* holder: "none" (no lease, or expired), "self", "other".
try_acquire_or_renew(holder) ==
    { [result |-> Err("lease call failed"), holder |-> holder],
      IF holder \in {"none", "self"}
      THEN [result |-> Ok([acquired_lease |-> TRUE]), holder |-> "self"]
      ELSE [result |-> Ok([acquired_lease |-> FALSE]), holder |-> holder] }

\* lease_renew clearing the flag when the lease call fails: a fault C2 detects
lease_flag_cleared_on_error(flag, result) ==
    IF result.ok THEN result.val.acquired_lease ELSE FALSE

\* lease_renew storing the flag only when the lease was acquired: a fault C3
\* detects
lease_flag_never_cleared(flag, result) ==
    IF result.ok /\ result.val.acquired_lease THEN TRUE ELSE flag

\* the match of lease_renew: the value of ctx.is_leader after it
lease_flag(flag, result) ==
    IF result.ok THEN result.val.acquired_lease ELSE flag

---------------------------------------------------------------------------
(* The inputs: Ingress objects, arguments and Services.                    *)

IngName == <<"i","n","g">>
IngNamespace == <<"n","s">>
IngUid == <<"u","i","d","1">>
HostA == <<"a",".","i","o">>
HostB == <<"b",".","i","o">>
HostC == <<"c",".","i","o">>
HostD == <<"d",".","i","o">>
HostT == <<"t",".","i","o">>
SvcWeb == <<"w","e","b">>
PortHttp == <<"h","t","t","p">>
PathRoot == <<"/">>
PathApi == <<"/","a","p","i">>

PortNumber(n) == [number |-> Some(n), name |-> None]
PortNamed(nm) == [number |-> None, name |-> Some(nm)]
Backend(port) == [service |-> Some([name |-> SvcWeb, port |-> port])]
NoServiceBackend == [service |-> None]
HttpPath(p, type, backend) == [path |-> Some(p), path_type |-> type, backend |-> backend]
HttpRule(host, paths) == [host |-> Some(host), http |-> Some([paths |-> paths])]

\* one rule of each kind the for loop of reconcile tells apart
RuleHttpOk == HttpRule(HostA, << HttpPath(PathRoot, "Prefix", Backend(Some(PortNumber(80)))) >>)
RuleNoHost == [host |-> None,
               http |-> Some([paths |-> << HttpPath(PathRoot, "Prefix", Backend(Some(PortNumber(80)))) >>])]
RuleBadType == HttpRule(HostC, << HttpPath(PathRoot, "Regex", Backend(Some(PortNumber(80)))) >>)
RuleNoPaths == HttpRule(HostD, << HttpPath(PathRoot, "Exact", NoServiceBackend) >>)
RuleTcp == [host |-> Some(HostT), http |-> None]
RuleNamed == HttpRule(HostB, << HttpPath(PathRoot, "Exact", Backend(Some(PortNamed(PortHttp)))) >>)
RuleTwoPaths == HttpRule(HostB, << HttpPath(PathRoot, "Prefix", Backend(Some(PortNumber(80)))),
                                   HttpPath(PathApi, "Exact", Backend(Some(PortNumber(81)))) >>)

HttpRuleKinds == {RuleHttpOk, RuleNoHost, RuleBadType, RuleNoPaths}
RuleKinds == HttpRuleKinds \cup {RuleTcp}

SeqsUpTo(S, n) == UNION { [1..k -> S] : k \in 0..n }

Meta(namespace, annotations) ==
    [name |-> IngName, namespace |-> namespace, uid |-> Some(IngUid),
     annotations |-> annotations]
MkIngress(namespace, annotations, spec) ==
    [metadata |-> Meta(namespace, annotations), spec |-> spec]
MkSpec(rules, default_backend) ==
    [rules |-> rules, default_backend |-> default_backend]

MkArgs(skip, link, exp) ==
    [default_gateway_name |-> <<"g","w">>,
     default_gateway_namespace |-> <<"d","e","f","a","u","l","t">>,
     link_to_ingress |-> link,
     experimental |-> exp,
     skip_by_default |-> skip]

\* values of the translate annotation: "true", "True", "false", "1"
TranslateValues ==
    { <<"t","r","u","e">>, <<"T","r","u","e">>, <<"f","a","l","s","e">>, <<"1">> }

\* annotation maps that differ in the translate annotation
TranslateAnnotations ==
    { None, Some(<< >>) } \cup { Some(TRANSLATE_INGRESS :> v) : v \in TranslateValues }

\* Ingress shapes the validation tells apart
ValidationShapes ==
    { [ns |-> Some(IngNamespace), spec |-> None],
      [ns |-> Some(IngNamespace), spec |-> Some(MkSpec(None, None))],
      [ns |-> Some(IngNamespace), spec |-> Some(MkSpec(Some(<< >>), None))],
      [ns |-> None, spec |-> Some(MkSpec(Some(<<RuleHttpOk>>), None))],
      [ns |-> None, spec |-> None],
      [ns |-> Some(IngNamespace), spec |-> Some(MkSpec(Some(<<RuleHttpOk>>), None))] }

\* leadership, skip decision and validation: every translate annotation with
\* every shape and both default policies
ScenariosEntry ==
    { [ingress |-> MkIngress(sh.ns, ann, sh.spec), args |-> MkArgs(skip, TRUE, FALSE)] :
        sh \in ValidationShapes, ann \in TranslateAnnotations, skip \in BOOLEAN }

DefaultBackends ==
    { None, Some(Backend(Some(PortNumber(9000)))), Some(Backend(None)),
      Some(NoServiceBackend) }

\* the pass over the rules: every rule list up to MaxRules, with a default
\* backend that resolves and the experimental flag set where a rule without
\* http reads them
ScenariosPass ==
    { [ingress |-> MkIngress(Some(IngNamespace), None,
                             Some(MkSpec(Some(rules),
                                         IF \E i \in DOMAIN rules : rules[i] = RuleTcp
                                         THEN Some(Backend(Some(PortNumber(9000))))
                                         ELSE None))),
       args |-> MkArgs(FALSE, TRUE, \E i \in DOMAIN rules : rules[i] = RuleTcp)] :
        rules \in SeqsUpTo(RuleKinds, MaxRules) }

\* the rule without http, first or last of the pass: every default backend
\* with the experimental flag set and unset
ScenariosTcp ==
    { [ingress |-> MkIngress(Some(IngNamespace), None, Some(MkSpec(Some(rules), db))),
       args |-> MkArgs(FALSE, TRUE, exp)] :
        rules \in { <<RuleTcp>>, <<RuleTcp, RuleHttpOk>>, <<RuleHttpOk, RuleTcp>> },
        db \in DefaultBackends, exp \in BOOLEAN }

\* hosts that give several objects, or read a Service
ScenariosSpecial ==
    { [ingress |-> MkIngress(Some(IngNamespace), Some(SPLIT_ROUTES :> <<"t","r","u","e">>),
                             Some(MkSpec(Some(<<RuleTwoPaths, RuleHttpOk>>), None))),
       args |-> MkArgs(FALSE, TRUE, FALSE)],
      [ingress |-> MkIngress(Some(IngNamespace),
                             Some((SPLIT_ROUTES :> <<"t","r","u","e">>)
                                  @@ ((HEADER_FILTERS_PREFIX \o <<"1">>) :> <<"x","=","1">>)
                                  @@ ((HEADER_FILTERS_PREFIX \o <<"2">>) :> <<"x","=","2">>)),
                             Some(MkSpec(Some(<<RuleHttpOk>>), None))),
       args |-> MkArgs(FALSE, TRUE, FALSE)],
      [ingress |-> MkIngress(Some(IngNamespace), Some(<< >>),
                             Some(MkSpec(Some(<<RuleNamed, RuleHttpOk>>), None))),
       args |-> MkArgs(FALSE, FALSE, FALSE)],
      [ingress |-> MkIngress(Some(IngNamespace), None,
                             Some(MkSpec(Some(<<RuleHttpOk, RuleTcp>>),
                                         Some(Backend(Some(PortNamed(PortHttp))))))),
       args |-> MkArgs(FALSE, TRUE, TRUE)],
      [ingress |-> MkIngress(Some(IngNamespace), None,
                             Some(MkSpec(Some(<< HttpRule(HostB,
                                 << HttpPath(<<"/","n">>, "Prefix", Backend(Some(PortNamed(PortHttp)))),
                                    HttpPath(<<"/","m">>, "Exact", Backend(Some(PortNamed(PortHttp)))) >>) >>),
                                         None))),
       args |-> MkArgs(FALSE, TRUE, FALSE)] }

\* the gateway annotations: each of the three present or absent, on an
\* Ingress that gives an HTTPRoute and a TCPRoute
ScenariosGateway ==
    { [ingress |-> MkIngress(Some(IngNamespace), Some(nm @@ ns @@ sec),
                             Some(MkSpec(Some(<<RuleHttpOk, RuleTcp>>),
                                         Some(Backend(Some(PortNumber(9000))))))),
       args |-> MkArgs(FALSE, TRUE, TRUE)] :
        nm \in { << >>, GATEWAY_NAME :> <<"g","2">> },
        ns \in { << >>, GATEWAY_NAMESPACE :> <<"n","2">> },
        sec \in { << >>, DESIRED_SECTION :> <<"s","1">> } }

Scenarios ==
    ScenariosEntry \cup ScenariosPass \cup ScenariosTcp \cup ScenariosSpecial \cup ScenariosGateway

\* the Services of the namespace: web with its port named http, or no
\* Service web
ServiceWorlds ==
    { (SvcWeb :> Some([spec |-> Some([ports |->
                           Some(<< [name |-> Some(PortHttp), port |-> 8080] >>)])])),
      (SvcWeb :> None) }

\* the reads of a Service the loop of create_http_routes over http.paths
\* makes when its reads find `svcs`: one for each path whose port has a name
\* and no number, up to the path that ends the loop with the error of an
\* unknown path type
RECURSIVE ReadsMade(_, _)
ReadsMade(svcs, paths) ==
    IF paths = << >> THEN 0
    ELSE LET path == paths[1]
             rest == Tail(paths)
         IN  IF IsNone(path.backend.service) THEN ReadsMade(svcs, rest)
             ELSE LET svc == Unwrap(path.backend.service)
                  IN  IF IsNone(svc.port) THEN ReadsMade(svcs, rest)
                      ELSE LET port == Unwrap(svc.port)
                               num == get_svc_port_number(Head(svcs), svc.name, port)
                               n == IF ReadsPort(port) THEN 1 ELSE 0
                           IN  IF IsSome(num) /\ IsNone(PathMatchType(path.path_type))
                               THEN n
                               ELSE n + ReadsMade(AfterRead(svcs, port), rest)

\* the reads of a Service the loop body of reconcile makes for a rule when
\* its reads find `svcs`: those of create_http_routes, or the one of
\* create_tcp_routes for the default backend of a rule without http
ReadCount(ing, a, svcs, rule) ==
    IF IsNone(rule.host) THEN 0
    ELSE IF IsSome(rule.http) THEN ReadsMade(svcs, Unwrap(rule.http).paths)
    ELSE LET db == Unwrap(ing.spec).default_backend
         IN  IF /\ a.experimental
                /\ IsSome(db)
                /\ IsSome(Unwrap(db).service)
                /\ IsSome(Unwrap(Unwrap(db).service).port)
                /\ ReadsPort(Unwrap(Unwrap(Unwrap(db).service).port))
             THEN 1 ELSE 0

\* whether a pass of reconcile over this Ingress reads a Service: the pass
\* comes to its loop, and some rule has a read
ReadsServices(ing, a) ==
    /\ ~reconcile_prologue(ing, a, TRUE).returns
    /\ \E i \in DOMAIN Unwrap(Unwrap(ing.spec).rules) :
          \E w \in ServiceWorlds :
             ReadCount(ing, a, <<w>>, Unwrap(Unwrap(ing.spec).rules)[i]) > 0

---------------------------------------------------------------------------
(* The builders and the pure functions called on their own: the inputs.    *)

\* longest path list of a host rule in a call of create_http_routes
MaxPaths == 2

PathNamed == <<"/","n">>
PathX == <<"/","x">>

\* one path of each kind the loop of create_http_routes tells apart
PathKinds ==
    { HttpPath(PathRoot, "Prefix", Backend(Some(PortNumber(80)))),
      HttpPath(PathRoot, "Exact", Backend(Some(PortNumber(80)))),
      HttpPath(PathApi, "Exact", Backend(Some(PortNumber(81)))),
      [path |-> None, path_type |-> "ImplementationSpecific",
       backend |-> Backend(Some(PortNumber(82)))],
      HttpPath(<< >>, "ImplementationSpecific", Backend(Some(PortNumber(83)))),
      HttpPath(PathNamed, "Prefix", Backend(Some(PortNamed(PortHttp)))),
      HttpPath(PathApi, "Prefix", NoServiceBackend),
      HttpPath(PathApi, "Prefix", Backend(None)),
      HttpPath(PathX, "Regex", Backend(Some(PortNumber(80)))),
      HttpPath(PathX, "Regex", NoServiceBackend) }

\* one annotation: key prefix/<weight>, value as written
Filter(prefix, weight, value) == (prefix \o weight) :> value

HeaderX1 == Filter(HEADER_FILTERS_PREFIX, <<"1">>, <<"x","=","1">>)
HeaderX2 == Filter(HEADER_FILTERS_PREFIX, <<"2">>, <<"x","=","2">>)
HeaderY3 == Filter(HEADER_FILTERS_PREFIX, <<"3">>, <<"y","~","=","a">>)
HeaderBadWeight == Filter(HEADER_FILTERS_PREFIX, <<"w">>, <<"x","=","9">>)
QueryQ1 == Filter(QUERY_FILTERS_PREFIX, <<"1">>, <<"q","=","1">>)
QueryQ2 == Filter(QUERY_FILTERS_PREFIX, <<"2">>, <<"q","~","=","2">>)
QueryMalformed == Filter(QUERY_FILTERS_PREFIX, <<"4">>, <<"q">>)

\* the matcher annotations of an Ingress: none, one side, both sides, keys
\* with one and with two alternatives, entries that are dropped
MatcherAnnotations ==
    { << >>,
      HeaderX1,
      HeaderX1 @@ HeaderX2,
      HeaderX1 @@ HeaderY3,
      HeaderX1 @@ HeaderX2 @@ HeaderY3,
      QueryQ1 @@ QueryQ2,
      HeaderX1 @@ HeaderX2 @@ QueryQ1,
      HeaderX1 @@ HeaderX2 @@ HeaderY3 @@ QueryQ1 @@ QueryQ2,
      HeaderBadWeight @@ QueryMalformed,
      HeaderX1 @@ HeaderBadWeight @@ QueryQ1 @@ QueryMalformed }

\* the split-paths annotation: absent, "true", "True", "false"
SplitAnnotations ==
    { << >> } \cup { SPLIT_ROUTES :> v :
                        v \in { <<"t","r","u","e">>, <<"T","r","u","e">>,
                                <<"f","a","l","s","e">> } }

\* the annotation maps of the Ingress of a call: every matcher set without
\* the split-paths annotation and with it "true", the other values of the
\* split-paths annotation without matchers, and no annotation map at all
BuildAnnotations ==
    { Some(sp @@ m) : sp \in { << >>, SPLIT_ROUTES :> <<"t","r","u","e">> },
                      m \in MatcherAnnotations }
    \cup { Some(sp) : sp \in SplitAnnotations }
    \cup { None }

\* the Ingress of a call of create_http_routes: one host rule with its paths
BuildIngresses ==
    { MkIngress(Some(IngNamespace), ann,
                Some(MkSpec(Some(<< HttpRule(HostA, paths) >>), None))) :
        ann \in BuildAnnotations, paths \in SeqsUpTo(PathKinds, MaxPaths) }

\* the Ingress in place while a function that reads none is called
BaseIngress ==
    MkIngress(Some(IngNamespace), None, Some(MkSpec(Some(<<RuleHttpOk>>), None)))

\* the longest MatcherList a function is called on
MaxMatchers == 3

\* the rules of the called lists: two alternatives for key a, one rule for
\* key b, one regular-expression rule for key c
A1 == [key |-> <<"a">>, value |-> <<"1">>, match_type |-> "Equal"]
A2 == [key |-> <<"a">>, value |-> <<"2">>, match_type |-> "Equal"]
B1 == [key |-> <<"b">>, value |-> <<"1">>, match_type |-> "Equal"]
C1 == [key |-> <<"c">>, value |-> <<"1">>, match_type |-> "RegularExpression"]

\* annotations for from_annotations under the prefix "headers/" of its test:
\* weights that tie (1 and 01), weights whose order is not the order of
\* their keys (10 and 2), a negative weight, a weight that is no number, one
\* that overflows i32, a key with a further "/", a value without "=", and a
\* key under another prefix
TestPrefix == <<"h","e","a","d","e","r","s","/">>
WeightedPool ==
    (TestPrefix \o <<"1">>) :> <<"x","=","1">>
    @@ (TestPrefix \o <<"0","1">>) :> <<"x","=","2">>
    @@ (TestPrefix \o <<"2">>) :> <<"y","~","=","a">>
    @@ (TestPrefix \o <<"1","0">>) :> <<"z","=","0">>
    @@ (TestPrefix \o <<"-","1">>) :> <<"x","=","3">>
    @@ (TestPrefix \o <<"w">>) :> <<"x","=","9">>
    @@ (TestPrefix \o <<"3">>) :> <<"q">>
    @@ (TestPrefix \o <<"a","/","5">>) :> <<"x","=","5">>
    @@ (TestPrefix \o <<"9","9","9","9","9","9","9","9","9","9">>) :> <<"x","=","7">>
    @@ <<"q","u","e","r","y","/","1">> :> <<"q","=","1">>

\* the longest hostname drawn character by character
MaxHostLen == 3

\* the hostnames sanitize_hostname is called on: every short string over a
\* letter, a digit and characters outside [a-zA-Z0-9], and the names
\* "foo.bar.com", "-foo-" and "*.Foo--bar.io "
Hostnames ==
    SeqsUpTo({"a", "1", ".", "-", "*", " "}, MaxHostLen)
    \cup { <<"f","o","o",".","b","a","r",".","c","o","m">>,
            <<"-","f","o","o","-">>,
            <<"*",".","F","o","o","-","-","b","a","r",".","i","o"," ">> }

\* the most add_owner calls made on one ObjectMeta
MaxOwners == 3

\* an owner as add_owner reads it: its name and its uid
Owner(name, uid) == [metadata |-> [name |-> name, uid |-> Some(uid)]]
OtherUid == <<"u","i","d","2">>

\* the calls of the functions that read nothing but their arguments:
\* catesian_product on every list of the rules, the empty one and those that
\* repeat a rule included;
\* create_match_rulesets on the matcher fields of a RouteInputInfo, each
\* side absent or a list, the query lists over rules the header lists hold;
\* from_annotations on every annotation map made of entries of the pool;
\* sanitize_hostname on the hostnames;
\* series of add_owner calls on an ObjectMeta without an owner list, as
\* HTTPRoute::new leaves it, with an empty list, or with one reference, for
\* owners that are the Ingress, an object of another name under the uid of
\* the Ingress, and an object under another uid
PureCalls ==
    { [fn |-> "catesian_product", arg |-> l] :
        l \in SeqsUpTo({A1, A2, B1, C1}, MaxMatchers) }
    \cup { [fn |-> "create_match_rulesets",
            arg |-> [header_matchers |-> h, query_matchers |-> q]] :
            h \in { None } \cup { Some(l) : l \in SeqsUpTo({A1, A2, B1}, MaxMatchers) },
            q \in { None } \cup { Some(l) : l \in SeqsUpTo({A1, A2, C1}, MaxMatchers - 1) } }
    \cup { [fn |-> "from_annotations",
            arg |-> [annotations |-> [ k \in keys |-> WeightedPool[k] ],
                     prefix |-> TestPrefix]] :
            keys \in SUBSET DOMAIN WeightedPool }
    \cup { [fn |-> "sanitize_hostname", arg |-> h] : h \in Hostnames }
    \cup { [fn |-> "add_owner",
            arg |-> [meta |-> [name |-> <<"r">>, owner_references |-> o], owners |-> os]] :
            o \in { None, Some(<< >>),
                     Some(<< [api_version |-> "v1", kind |-> "Service",
                              name |-> <<"s","v","c">>, uid |-> OtherUid,
                              controller |-> Some(TRUE),
                              block_owner_deletion |-> None] >>) },
            os \in SeqsUpTo({ Owner(IngName, IngUid), Owner(<<"n","e","w">>, IngUid),
                              Owner(IngName, OtherUid) }, MaxOwners) \ { << >> } }

\* the Ingress of the linking step: a host of two paths split into two
\* HTTPRoutes, and a host that becomes a TCPRoute
LinkIngress ==
    MkIngress(Some(IngNamespace), Some(SPLIT_ROUTES :> <<"t","r","u","e">>),
              Some(MkSpec(Some(<<RuleTwoPaths, RuleTcp>>),
                          Some(Backend(Some(PortNumber(9000)))))))

---------------------------------------------------------------------------
(* The state machine.                                                      *)

\* rec_result before any reconcile has returned, and while one is in flight
NoResult == [site |-> "None", ok |-> TRUE, err |-> "", action |-> Action_requeue(0)]

\* no function is called on its own
NoCall == [fn |-> "none", arg |-> << >>]

\* main at its select!, both futures being polled
Started == [main |-> "select", lease_renewer |-> "running", ingress_controller |-> "running"]

\* Context::new stores false in is_leader; the lease may be free or held by
\* another replica when the process starts; the Services vary for an Ingress
\* whose reconcile reads one
Init ==
    /\ \E sc \in Scenarios : ingress = sc.ingress /\ args = sc.args
    /\ services \in IF ReadsServices(ingress, args) THEN ServiceWorlds ELSE {(SvcWeb :> None)}
    /\ is_leader = FALSE
    /\ lease_holder \in {"none", "other"}
    /\ lease_ret = None
    /\ fail_streak = 0
    /\ flag_before = FALSE
    /\ rec_pc = "idle"
    /\ rule_idx = 0
    /\ rule_reads = << >>
    /\ pending = << >>
    /\ rec_result = NoResult
    /\ pass_log = << >>
    /\ n_errors = 0
    /\ store = << >>
    /\ done_names = None
    /\ proc = Started
    /\ fn_call = NoCall
    /\ fn_ret = None

\* the loop of lease_renew at its lease call: the call is awaited, the
\* cluster answers it, and the Lease is what the call has made of it
LeaseRenewCall ==
    /\ proc.lease_renewer = "running"
    /\ lease_ret = None
    /\ \E out \in try_acquire_or_renew(lease_holder) :
          /\ lease_holder' = out.holder
          /\ lease_ret' = Some(out.result)
    /\ UNCHANGED <<rule_reads, proc, done_names, fn_call, fn_ret, ingress, args, services, is_leader,
                   fail_streak, flag_before, rec_pc, rule_idx, pending, rec_result,
                   pass_log, n_errors, store>>

\* the loop of lease_renew after the answer: the match on the result, the
\* store of ctx.is_leader in its Ok arm, the sleep
LeaseRenewMatch ==
    /\ proc.lease_renewer = "running"
    /\ IsSome(lease_ret)
    /\ LET result == Unwrap(lease_ret)
       IN  /\ is_leader' = lease_flag(is_leader, result)
           /\ fail_streak' = IF result.ok THEN 0
                             ELSE IF fail_streak < MaxStreak THEN fail_streak + 1 ELSE MaxStreak
           /\ flag_before' = IF result.ok THEN is_leader'
                             ELSE IF fail_streak = 0 THEN is_leader ELSE flag_before
    /\ lease_ret' = None
    /\ UNCHANGED <<rule_reads, proc, done_names, fn_call, fn_ret, ingress, args, services, lease_holder,
                   rec_pc, rule_idx, pending, rec_result, pass_log, n_errors, store>>

\* the cluster: the lease passes its TTL without a renewal
LeaseExpires ==
    /\ lease_holder \in {"self", "other"}
    /\ lease_holder' = "none"
    /\ UNCHANGED <<rule_reads, lease_ret, proc, done_names, fn_call, fn_ret, ingress, args, services, is_leader,
                   fail_streak, flag_before, rec_pc,
                   rule_idx, pending, rec_result, pass_log, n_errors, store>>

\* the cluster: another replica takes the free lease
OtherAcquires ==
    /\ lease_holder = "none"
    /\ lease_holder' = "other"
    /\ UNCHANGED <<rule_reads, lease_ret, proc, done_names, fn_call, fn_ret, ingress, args, services, is_leader,
                   fail_streak, flag_before, rec_pc,
                   rule_idx, pending, rec_result, pass_log, n_errors, store>>

\* the cluster: the Service the Ingress names changes
ServiceChanges ==
    /\ ReadsServices(ingress, args)
    /\ services' \in ServiceWorlds \ {services}
    /\ UNCHANGED <<rule_reads, lease_ret, proc, done_names, fn_call, fn_ret, ingress, args, is_leader, lease_holder, fail_streak, flag_before,
                   rec_pc, rule_idx, pending, rec_result, pass_log, n_errors, store>>

\* the names of the objects the patch calls of a pass were made for
NamesOf(log) ==
    { log[i].key[3] : i \in { j \in DOMAIN log : log[j].ev \in {"applied", "apply_failed"} } }

\* reconcile returns `result` at `site`; the controller schedules the requeue
Finish(site, result, log) ==
    /\ rec_pc' = "returned"
    /\ rec_result' = Dispatched(ingress, args, site, result)
    /\ rule_idx' = 0
    /\ pending' = << >>
    /\ pass_log' = log
    /\ n_errors' = IF result.ok THEN n_errors
                   ELSE IF n_errors < MaxErrors THEN n_errors + 1 ELSE MaxErrors
    /\ done_names' = IF site = "Done" THEN Some(NamesOf(log)) ELSE done_names

\* the for loop goes on after rule i: to rule i + 1, or to the last statement
Advance(i, log) ==
    IF i >= Len(Unwrap(Unwrap(ingress.spec).rules))
    THEN Finish("Done", reconcile_epilogue, log)
    ELSE /\ rec_pc' = "loop"
         /\ rule_idx' = i + 1
         /\ pending' = << >>
         /\ pass_log' = log
         /\ rec_result' = NoResult
         /\ UNCHANGED <<n_errors, done_names>>

LogEntry(i, ev, key, params) == [rule |-> i, ev |-> ev, key |-> key, params |-> params]
NoParams == [field_manager |-> None, force |-> FALSE]

\* the controller calls reconcile: the code up to the for loop
ReconcileStart ==
    /\ proc.ingress_controller = "running"
    /\ rec_pc \in {"idle", "returned"}
    /\ LET pro == reconcile_prologue(ingress, args, is_leader)
       IN  IF pro.returns
           THEN Finish(pro.site, pro.result, << >>)
           ELSE Advance(0, << >>)
    /\ UNCHANGED <<rule_reads, lease_ret, proc, fn_call, fn_ret, ingress, args, services, is_leader, lease_holder,
                   fail_streak,
                   flag_before, store>>

\* the loop body of reconcile at an Api::get of a Service that is not its
\* last for the rule at rule_idx: the get is answered with the Service as it
\* is, and the loop over the paths goes on to its next get
ReconcileRead ==
    /\ proc.ingress_controller = "running"
    /\ rec_pc = "loop"
    /\ LET rule == Unwrap(Unwrap(ingress.spec).rules)[rule_idx]
           svcs == Append(rule_reads, services)
       IN  /\ ReadCount(ingress, args, svcs, rule) > Len(svcs)
           /\ rule_reads' = svcs
    /\ UNCHANGED <<lease_ret, proc, fn_call, fn_ret, ingress, args, services, is_leader,
                   lease_holder, fail_streak, flag_before, rec_pc, rule_idx, pending,
                   rec_result, pass_log, n_errors, store, done_names>>

\* the for loop returning an error for a rule it cannot build, where the code
\* has `continue`: a fault C6 detects
ReconcileRule_returns_build_error ==
    /\ proc.ingress_controller = "running"
    /\ rec_pc = "loop"
    /\ LET rule == Unwrap(Unwrap(ingress.spec).rules)[rule_idx]
           svcs == Append(rule_reads, services)
       IN  /\ ReadCount(ingress, args, svcs, rule) <= Len(svcs)
           /\ \E o \in RuleOutcomes(ingress, args, svcs, rule) :
                 IF o.skip
                 THEN Finish("Error", Err(o.why),
                             Append(pass_log, LogEntry(rule_idx, o.why, << >>, NoParams)))
                 ELSE /\ rec_pc' = "applying"
                      /\ pending' = o.routes
                      /\ UNCHANGED <<rule_idx, rec_result, pass_log, n_errors, done_names>>
    /\ rule_reads' = << >>
    /\ UNCHANGED <<lease_ret, proc, fn_call, fn_ret, ingress, args, services, is_leader,
                   lease_holder, fail_streak, flag_before, store>>

\* the for loop takes the rule at rule_idx, or goes on with it from its last
\* Api::get of a Service, which is answered with the Service as it is: the
\* rule is skipped, or its routes are built and wait to be applied
ReconcileRule ==
    /\ proc.ingress_controller = "running"
    /\ rec_pc = "loop"
    /\ LET rule == Unwrap(Unwrap(ingress.spec).rules)[rule_idx]
           svcs == Append(rule_reads, services)
       IN  /\ ReadCount(ingress, args, svcs, rule) <= Len(svcs)
           /\ \E o \in RuleOutcomes(ingress, args, svcs, rule) :
                 IF o.skip
                 THEN Advance(rule_idx, Append(pass_log, LogEntry(rule_idx, o.why, << >>, NoParams)))
                 ELSE /\ rec_pc' = "applying"
                      /\ pending' = o.routes
                      /\ UNCHANGED <<rule_idx, rec_result, pass_log, n_errors, done_names>>
    /\ rule_reads' = << >>
    /\ UNCHANGED <<lease_ret, proc, fn_call, fn_ret, ingress, args, services, is_leader,
                   lease_holder, fail_streak, flag_before, store>>

\* the patch loop loading ctx.is_leader anew before each patch call and
\* returning as a non-leader does when it finds false: a fault C23 detects
ApplySucceeds_rereads_flag ==
    /\ proc.ingress_controller = "running"
    /\ rec_pc = "applying"
    /\ LET route == Linked(ingress, args, Head(pending))
           ns == Unwrap(ingress.metadata.namespace)
           params == PatchParamsOf(route.kind)
           log == Append(pass_log, LogEntry(rule_idx, "applied", ObjKey(ns, route), params))
       IN  IF ~is_leader
           THEN /\ Finish("NotLeader", Ok(Action_requeue(20)), pass_log)
                /\ store' = store
           ELSE /\ store' = ServerSideApply(store, ns, route, params)
                /\ IF Len(pending) = 1
                   THEN Advance(rule_idx, log)
                   ELSE /\ pending' = Tail(pending)
                        /\ pass_log' = log
                        /\ UNCHANGED <<rec_pc, rule_idx, rec_result, n_errors, done_names>>
    /\ UNCHANGED <<rule_reads, lease_ret, proc, fn_call, fn_ret, ingress, args, services, is_leader, lease_holder,
                   fail_streak,
                   flag_before>>

\* the patch call for the next route succeeds
ApplySucceeds ==
    /\ proc.ingress_controller = "running"
    /\ rec_pc = "applying"
    /\ LET route == Linked(ingress, args, Head(pending))
           ns == Unwrap(ingress.metadata.namespace)
           params == PatchParamsOf(route.kind)
           log == Append(pass_log, LogEntry(rule_idx, "applied", ObjKey(ns, route), params))
       IN  /\ store' = ServerSideApply(store, ns, route, params)
           /\ IF Len(pending) = 1
              THEN Advance(rule_idx, log)
              ELSE /\ pending' = Tail(pending)
                   /\ pass_log' = log
                   /\ UNCHANGED <<rec_pc, rule_idx, rec_result, n_errors, done_names>>
    /\ UNCHANGED <<rule_reads, lease_ret, proc, fn_call, fn_ret, ingress, args, services, is_leader, lease_holder,
                   fail_streak,
                   flag_before>>

\* a failed patch call that is logged and skipped, the loop going on with the
\* next route: a fault C7 detects
ApplyFails_skipped ==
    /\ proc.ingress_controller = "running"
    /\ rec_pc = "applying"
    /\ LET route == Linked(ingress, args, Head(pending))
           ns == Unwrap(ingress.metadata.namespace)
           params == PatchParamsOf(route.kind)
           log == Append(pass_log, LogEntry(rule_idx, "apply_failed", ObjKey(ns, route), params))
       IN  IF Len(pending) = 1
           THEN Advance(rule_idx, log)
           ELSE /\ pending' = Tail(pending)
                /\ pass_log' = log
                /\ UNCHANGED <<rec_pc, rule_idx, rec_result, n_errors, done_names>>
    /\ UNCHANGED <<rule_reads, lease_ret, proc, fn_call, fn_ret, ingress, args, services, is_leader, lease_holder,
                   fail_streak,
                   flag_before, store>>

\* a failed patch call that deletes what the pass had applied before it
\* returns the error: a fault C8 detects
ApplyFails_rollback ==
    /\ proc.ingress_controller = "running"
    /\ rec_pc = "applying"
    /\ LET route == Linked(ingress, args, Head(pending))
           ns == Unwrap(ingress.metadata.namespace)
           params == PatchParamsOf(route.kind)
           applied == { pass_log[i].key : i \in { j \in DOMAIN pass_log :
                                                    pass_log[j].ev = "applied" } }
       IN  /\ Finish("Error", Err("KubeError"),
                     Append(pass_log, LogEntry(rule_idx, "apply_failed",
                                               ObjKey(ns, route), params)))
           /\ store' = [ k \in DOMAIN store \ applied |-> store[k] ]
    /\ UNCHANGED <<rule_reads, lease_ret, proc, fn_call, fn_ret, ingress, args, services, is_leader, lease_holder,
                   fail_streak,
                   flag_before>>

\* the patch call for the next route fails: `?` returns the error
ApplyFails ==
    /\ proc.ingress_controller = "running"
    /\ rec_pc = "applying"
    /\ LET route == Linked(ingress, args, Head(pending))
           ns == Unwrap(ingress.metadata.namespace)
           params == PatchParamsOf(route.kind)
       IN  Finish("Error", Err("KubeError"),
                  Append(pass_log, LogEntry(rule_idx, "apply_failed", ObjKey(ns, route), params)))
    /\ UNCHANGED <<rule_reads, lease_ret, proc, fn_call, fn_ret, ingress, args, services, is_leader, lease_holder,
                   fail_streak,
                   flag_before, store>>

\* main has returned and the process is gone: nothing is left of its memory
\* (done_names, what an observer saw of its last completed pass, stays)
ProcessEnds ==
    /\ is_leader' = FALSE
    /\ lease_ret' = None
    /\ fail_streak' = 0
    /\ flag_before' = FALSE
    /\ rec_pc' = "idle"
    /\ rule_idx' = 0
    /\ rule_reads' = << >>
    /\ pending' = << >>
    /\ rec_result' = NoResult
    /\ pass_log' = << >>
    /\ n_errors' = 0
    /\ UNCHANGED <<ingress, args, services, lease_holder, store, done_names, fn_call, fn_ret>>

\* the future lease_renewer ends (its loop has no exit: a panic of the lease
\* call unwinding through it): select! is done with it, drops the other
\* future, and main ends
LeaseRenewerExits ==
    /\ proc.lease_renewer = "running"
    /\ proc' = [main |-> "ended", lease_renewer |-> "exited", ingress_controller |-> "dropped"]
    /\ ProcessEnds

\* the controller and main each running as a task of its own, the elector
\* going on after the controller has ended: a fault C24 detects
IngressControllerExits_as_detached_task ==
    /\ proc.ingress_controller = "running"
    /\ proc' = [proc EXCEPT !.ingress_controller = "exited"]
    /\ rec_pc' = "idle"
    /\ rule_idx' = 0
    /\ rule_reads' = << >>
    /\ pending' = << >>
    /\ rec_result' = NoResult
    /\ pass_log' = << >>
    /\ UNCHANGED <<ingress, args, services, is_leader, lease_holder, lease_ret, fail_streak,
                   flag_before, n_errors, store, done_names, fn_call, fn_ret>>

\* the future ingress_controller ends (the stream of the controller is
\* exhausted): select! takes its branch, drops lease_renewer, and main
\* returns Ok(())
IngressControllerExits ==
    /\ proc.ingress_controller = "running"
    /\ proc' = [main |-> "ended", lease_renewer |-> "dropped", ingress_controller |-> "exited"]
    /\ ProcessEnds

Next ==
    \/ LeaseRenewCall
    \/ LeaseRenewMatch
    \/ LeaseRenewerExits
    \/ IngressControllerExits
    \/ LeaseExpires
    \/ OtherAcquires
    \/ ServiceChanges
    \/ ReconcileStart
    \/ ReconcileRead
    \/ ReconcileRule
    \/ ApplySucceeds
    \/ ApplyFails

Spec == Init /\ [][Next]_vars

---------------------------------------------------------------------------
(* Vocabulary of the properties.                                           *)

Rules == Unwrap(Unwrap(ingress.spec).rules)
Returned == rec_pc = "returned"
InFlight == rec_pc \in {"loop", "applying"}

\* the positions of pass_log that are patch calls, and those that succeeded
WriteCalls == { i \in DOMAIN pass_log : pass_log[i].ev \in {"applied", "apply_failed"} }
Applied == { i \in DOMAIN pass_log : pass_log[i].ev = "applied" }
FailedApplies == { i \in DOMAIN pass_log : pass_log[i].ev = "apply_failed" }
\* the positions that record a rule whose routes could not be built: no host,
\* an unknown path type or no usable path, an unresolvable TCP backend
BuildFailures == { i \in DOMAIN pass_log : pass_log[i].ev \in {"no_host", "build_failed"} }

\* the positions of pass_log that belong to rule r, and its patch calls
EntriesOf(r) == { j \in DOMAIN pass_log : pass_log[j].rule = r }
WritesOf(r) == EntriesOf(r) \cap WriteCalls

\* the host rules of the Ingress without an http block
TcpRules ==
    IF IsSome(ingress.spec) /\ IsSome(Unwrap(ingress.spec).rules)
    THEN { r \in DOMAIN Rules : IsSome(Rules[r].host) /\ IsNone(Rules[r].http) }
    ELSE {}

DefaultBackend == Unwrap(ingress.spec).default_backend

\* the pass has gone on after rule r: it is at the next rule, or has taken
\* it, or r was the last rule and reconcile has returned from its last line
WentOnAfter(r) ==
    \/ InFlight /\ rule_idx = r + 1
    \/ EntriesOf(r + 1) # {}
    \/ r = Len(Rules) /\ Returned /\ rec_result.site = "Done"

\* the rule at position r has routes that can be built whatever the Services
\* hold: it has a host and either an http block with at least one path,
\* every path with a service, a port number and a type of the closed map, or
\* no http block under the experimental flag with a default backend whose
\* service has a port number
BuildsAlways(r) ==
    /\ IsSome(Rules[r].host)
    /\ IF IsSome(Rules[r].http)
       THEN LET paths == Unwrap(Rules[r].http).paths
            IN  /\ paths # << >>
                /\ \A k \in DOMAIN paths :
                      /\ paths[k].path_type \in {"Prefix", "Exact", "ImplementationSpecific"}
                      /\ IsSome(paths[k].backend.service)
                      /\ IsSome(Unwrap(paths[k].backend.service).port)
                      /\ IsSome(Unwrap(Unwrap(paths[k].backend.service).port).number)
       ELSE /\ args.experimental
            /\ IsSome(DefaultBackend)
            /\ IsSome(Unwrap(DefaultBackend).service)
            /\ IsSome(Unwrap(Unwrap(DefaultBackend).service).port)
            /\ IsSome(Unwrap(Unwrap(Unwrap(DefaultBackend).service).port).number)

EqualsIgnoringCase(s, t) ==
    /\ Len(s) = Len(t)
    /\ \A i \in DOMAIN s : ToLowerChar(s[i]) = ToLowerChar(t[i])

\* the skip decision as the specification words it
ExpectedSkip ==
    LET ann == Annotation(ingress.metadata, TRANSLATE_INGRESS)
    IN  IF IsSome(ann)
        THEN ~EqualsIgnoringCase(Unwrap(ann), <<"t","r","u","e">>)
        ELSE args.skip_by_default

\* no spec, no rule (list absent or empty), or no namespace
LacksSpecRuleOrNamespace ==
    \/ IsNone(ingress.spec)
    \/ IsNone(Unwrap(ingress.spec).rules)
    \/ Unwrap(Unwrap(ingress.spec).rules) = << >>
    \/ IsNone(ingress.metadata.namespace)

---------------------------------------------------------------------------
(* The builders and the pure functions called on their own: the calls.     *)

\* no lease call and no reconcile under way, nothing written yet
Quiet ==
    /\ lease_ret = None
    /\ fail_streak = 0
    /\ flag_before = FALSE
    /\ rec_pc = "idle"
    /\ rule_idx = 0
    /\ rule_reads = << >>
    /\ pending = << >>
    /\ rec_result = NoResult
    /\ pass_log = << >>
    /\ n_errors = 0
    /\ store = << >>
    /\ done_names = None
    /\ proc = Started

main_vars == <<ingress, args, services, is_leader, lease_holder, lease_ret, fail_streak,
               flag_before, rec_pc, rule_idx, rule_reads, pending, rec_result,
               pass_log, n_errors, store, done_names, proc>>

FnInit ==
    /\ Quiet
    /\ fn_ret = None
    /\ \/ /\ ingress \in BuildIngresses
          /\ args = MkArgs(FALSE, TRUE, FALSE)
          /\ services \in IF ReadsServices(ingress, args) THEN ServiceWorlds
                          ELSE { CHOOSE w \in ServiceWorlds : IsSome(w[SvcWeb]) }
          /\ fn_call = [fn |-> "create_http_routes", arg |-> 1, reads |-> << >>]
          /\ is_leader = FALSE
          /\ lease_holder = "none"
       \/ /\ ingress = BaseIngress
          /\ args = MkArgs(FALSE, TRUE, FALSE)
          /\ services = CHOOSE w \in ServiceWorlds : IsSome(w[SvcWeb])
          /\ fn_call \in PureCalls
          /\ is_leader = FALSE
          /\ lease_holder = "none"
       \/ /\ ingress = LinkIngress
          /\ args \in { MkArgs(FALSE, link, TRUE) : link \in BOOLEAN }
          /\ services = CHOOSE w \in ServiceWorlds : IsSome(w[SvcWeb])
          /\ fn_call = [fn |-> "reconcile", arg |-> << >>]
          /\ is_leader = TRUE
          /\ lease_holder = "self"

\* create_http_routes at an Api::get of a Service that is not its last: the
\* get is answered with the Service as it is, and the loop over the paths
\* goes on to its next get; fn_call.reads holds what the reads have found
CallCreateHttpRoutesRead ==
    /\ fn_call.fn = "create_http_routes"
    /\ fn_ret = None
    /\ LET svcs == Append(fn_call.reads, services)
       IN  /\ ReadCount(ingress, args, svcs, Rules[fn_call.arg]) > Len(svcs)
           /\ fn_call' = [fn_call EXCEPT !.reads = svcs]
    /\ UNCHANGED <<main_vars, fn_ret>>

\* create_http_routes(ctx, route_info, http) for the rule fn_call names, with
\* the RouteInputInfo reconcile builds for it: the call from its beginning,
\* or from its last Api::get of a Service, to its return
CallCreateHttpRoutes ==
    /\ fn_call.fn = "create_http_routes"
    /\ fn_ret = None
    /\ LET rule == Rules[fn_call.arg]
           svcs == Append(fn_call.reads, services)
       IN  /\ ReadCount(ingress, args, svcs, rule) <= Len(svcs)
           /\ \E r \in create_http_routes(svcs, RouteInfo(ingress, args, Unwrap(rule.host)),
                                           Unwrap(rule.http)) :
                 fn_ret' = Some(r)
           /\ fn_call' = [fn_call EXCEPT !.reads = svcs]
    /\ UNCHANGED main_vars

\* MatcherList::catesian_product on the list fn_call holds
CallCatesianProduct ==
    /\ fn_call.fn = "catesian_product"
    /\ fn_ret = None
    /\ \E r \in catesian_product(fn_call.arg) : fn_ret' = Some(r)
    /\ UNCHANGED <<main_vars, fn_call>>

\* create_match_rulesets on the matcher fields fn_call holds
CallCreateMatchRulesets ==
    /\ fn_call.fn = "create_match_rulesets"
    /\ fn_ret = None
    /\ \E r \in create_match_rulesets(fn_call.arg) : fn_ret' = Some(r)
    /\ UNCHANGED <<main_vars, fn_call>>

\* MatcherList::from_annotations on the annotations and prefix fn_call holds
CallFromAnnotations ==
    /\ fn_call.fn = "from_annotations"
    /\ fn_ret = None
    /\ fn_ret' = Some(from_annotations(fn_call.arg.annotations, fn_call.arg.prefix))
    /\ UNCHANGED <<main_vars, fn_call>>

\* sanitize_hostname on the hostname fn_call holds
CallSanitizeHostname ==
    /\ fn_call.fn = "sanitize_hostname"
    /\ fn_ret = None
    /\ fn_ret' = Some(sanitize_hostname(fn_call.arg))
    /\ UNCHANGED <<main_vars, fn_call>>

\* the next add_owner call of the series fn_call holds, on the ObjectMeta
\* the calls before it left
CallAddOwner ==
    /\ fn_call.fn = "add_owner"
    /\ LET n == IF IsSome(fn_ret) THEN Unwrap(fn_ret).calls ELSE 0
           meta == IF IsSome(fn_ret) THEN Unwrap(fn_ret).meta ELSE fn_call.arg.meta
       IN  /\ n < Len(fn_call.arg.owners)
           /\ fn_ret' = Some([meta |-> add_owner(meta, fn_call.arg.owners[n + 1]),
                              calls |-> n + 1])
    /\ UNCHANGED <<main_vars, fn_call>>

\* reconcile called for the Ingress of the linking step on the replica that
\* leads, pass after pass, each step running from one await to the next: the
\* rule is built (its ports are numbers, so no Service is read), and each
\* route is linked and handed to its patch call only when the patch call of
\* the route before it was answered Ok; an error ends the pass
CallReconcile ==
    /\ fn_call.fn = "reconcile"
    /\ \/ ReconcileStart
       \/ ReconcileRule
       \/ ApplySucceeds
       \/ ApplyFails

\* the cluster changes the Service the Ingress names between two reads:
\* those of one call of create_http_routes, or the last of a call that has
\* returned and the first of the next pass, which calls it anew
ServiceChangesBetweenReads ==
    /\ fn_call.fn = "create_http_routes"
    /\ fn_call.reads # << >>
    /\ ReadsServices(ingress, args)
    /\ services' \in ServiceWorlds \ {services}
    /\ IF IsSome(fn_ret)
       THEN /\ fn_ret' = None
            /\ fn_call' = [fn_call EXCEPT !.reads = << >>]
       ELSE UNCHANGED <<fn_ret, fn_call>>
    /\ UNCHANGED <<ingress, args, is_leader, lease_holder, lease_ret, fail_streak,
                   flag_before, rec_pc, rule_idx, rule_reads, pending, rec_result,
                   pass_log, n_errors, store, done_names, proc>>

FnNext ==
    \/ CallCreateHttpRoutesRead
    \/ CallCreateHttpRoutes
    \/ ServiceChangesBetweenReads
    \/ CallCatesianProduct
    \/ CallCreateMatchRulesets
    \/ CallFromAnnotations
    \/ CallSanitizeHostname
    \/ CallAddOwner
    \/ CallReconcile

FnSpec == FnInit /\ [][FnNext]_vars

---------------------------------------------------------------------------
(* The claims.                                                             *)

\* C1: a reconcile call that reads the leadership flag as false returns at
\* once, with a requeue of 20 seconds, and makes no patch call and no change
\* to the cluster, whatever the Ingress holds.
C1_NonLeaderReturnsWithoutWrites ==
    [][ (ReconcileStart /\ ~is_leader) =>
            /\ rec_pc' = "returned"
            /\ rec_result'.ok
            /\ rec_result'.site = "NotLeader"
            /\ rec_result'.action = Action_requeue(20)
            /\ pass_log' = << >>
            /\ store' = store ]_vars

\* C1 witness: a non-leader call has returned for an Ingress that a leader
\* would translate and write routes for.
C1_Witness ==
    /\ Returned
    /\ rec_result.site = "NotLeader"
    /\ ~ExpectedSkip
    /\ ~LacksSpecRuleOrNamespace
    /\ Rules[1] = RuleHttpOk

\* C2: while lease calls fail one after the other, once, twice or more often,
\* the leadership flag keeps the value it had before the first of the failures.
C2_FailedLeaseCallsKeepFlag ==
    fail_streak > 0 => is_leader = flag_before

\* C2 witness: two lease calls in a row have failed while the flag was true,
\* and the lease has meanwhile passed to another holder.
C2_Witness ==
    /\ fail_streak >= 2
    /\ is_leader
    /\ lease_holder = "other"

\* C3: a lease call that succeeds sets the leadership flag to whether this
\* holder holds the lease as the call reports it: the call answers true when
\* this holder has the lease after it and false when another holder has, and
\* the flag is set to that answer, so that a flag that was true is cleared by
\* the first successful call that finds the lease with another holder.
C3_SuccessfulLeaseCallSetsFlag ==
    [][ /\ (LeaseRenewCall /\ Unwrap(lease_ret').ok) =>
              /\ Unwrap(lease_ret').val.acquired_lease = (lease_holder' = "self")
              /\ (lease_holder = "other" => ~Unwrap(lease_ret').val.acquired_lease)
        /\ (LeaseRenewMatch /\ Unwrap(lease_ret).ok) =>
              /\ is_leader' = Unwrap(lease_ret).val.acquired_lease
              /\ fail_streak' = 0 ]_vars

\* C3 witness: a reconcile that began as leader is still applying while a
\* successful lease call has found the lease with another holder and its
\* answer has cleared the flag.
C3_Witness ==
    /\ rec_pc = "applying"
    /\ ~is_leader
    /\ lease_ret = None
    /\ fail_streak = 0
    /\ lease_holder = "other"

\* C4 as claimed: a reconcile by the leader of a non-skipped Ingress that has
\* no spec, or no rule (rule list absent or empty), or no namespace returns an
\* error, retried after 30 seconds, and attempts no write.
C4_MissingSpecRuleOrNamespaceFails ==
    [][ (ReconcileStart /\ is_leader /\ ~ExpectedSkip /\ LacksSpecRuleOrNamespace) =>
            /\ rec_pc' = "returned"
            /\ ~rec_result'.ok
            /\ rec_result'.action = Action_requeue(30)
            /\ pass_log' = << >>
            /\ store' = store ]_vars

\* C5: on the leader a reconcile is skipped exactly when the translate
\* annotation is present and differs from "true" ignoring case, or is absent
\* while skip_by_default is set; a skipped reconcile returns a requeue of 60
\* seconds and writes nothing, also for an Ingress that fails the validation.
C5_SkipDecision ==
    [][ (ReconcileStart /\ is_leader) =>
            /\ ExpectedSkip =>
                  /\ rec_pc' = "returned"
                  /\ rec_result'.ok
                  /\ rec_result'.site = "Skipped"
                  /\ rec_result'.action = Action_requeue(60)
                  /\ pass_log' = << >>
                  /\ store' = store
            /\ ~ExpectedSkip => rec_result'.site # "Skipped" ]_vars

\* C5 witness: the leader has skipped an Ingress without a spec whose
\* annotation is present with a value other than "true".
C5_Witness ==
    /\ Returned
    /\ rec_result.site = "Skipped"
    /\ IsNone(ingress.spec)
    /\ IsSome(Annotation(ingress.metadata, TRANSLATE_INGRESS))

\* C6: when the routes of one host rule cannot be built (no host, an unknown
\* path type, no usable path, a TCP backend that does not resolve), the
\* failure is that rule's alone.  Nothing is applied for the rule.  The pass
\* is not ended by it: it goes on with the next rule, and after the last rule
\* reconcile returns Done with the requeue of 10 seconds.  Every other rule
\* the pass comes to is taken, and those whose routes can be built are handed
\* to the patch call, rules without http among them, what was applied being
\* in the cluster.  A pass with a build failure ends in Done with 10 seconds
\* unless one of its patch calls fails; then it ends with that call, in the
\* patch call's error and never in the build's.
C6_BuildFailureSkipsOnlyThatRule ==
    /\ \A i \in BuildFailures :
          LET r == pass_log[i].rule
          IN  /\ WritesOf(r) = {}
              /\ EntriesOf(r) = {i}
              /\ IF r < Len(Rules)
                 THEN IF i < Len(pass_log)
                      THEN pass_log[i + 1].rule = r + 1
                      ELSE InFlight /\ rule_idx = r + 1
                 ELSE /\ i = Len(pass_log)
                      /\ Returned
                      /\ rec_result.ok
                      /\ rec_result.site = "Done"
                      /\ rec_result.action = Action_requeue(10)
    /\ (Returned /\ BuildFailures # {}) =>
          /\ \A r \in DOMAIN Rules :
                \/ /\ EntriesOf(r) # {}
                   /\ BuildsAlways(r) =>
                         /\ WritesOf(r) # {}
                         /\ EntriesOf(r) \subseteq WriteCalls
                         /\ \A j \in WritesOf(r) \cap Applied : pass_log[j].key \in DOMAIN store
                \/ \E f \in FailedApplies : pass_log[f].rule < r
          /\ \/ /\ FailedApplies = {}
                /\ rec_result.ok
                /\ rec_result.site = "Done"
                /\ rec_result.action = Action_requeue(10)
             \/ /\ FailedApplies = {Len(pass_log)}
                /\ ~rec_result.ok
                /\ rec_result.site = "Error"
                /\ rec_result.err = "KubeError"

\* C6 witness: a pass has ended in Done in which the first rule could not be
\* built and the second rule was applied, the object being in the cluster.
C6_Witness ==
    /\ Returned
    /\ rec_result.site = "Done"
    /\ rec_result.action = Action_requeue(10)
    /\ \E i \in BuildFailures : pass_log[i].rule = 1 /\ pass_log[i].ev = "build_failed"
    /\ \E j \in Applied : pass_log[j].rule = 2 /\ pass_log[j].key \in DOMAIN store

\* C7 as claimed: a patch call that fails for one host's route is skipped, and
\* the host rules after it are still taken in the same pass.
C7_ApplyFailureIsSkipped ==
    Returned =>
        \A i \in FailedApplies :
            \A r \in DOMAIN Rules :
                r > pass_log[i].rule => \E j \in DOMAIN pass_log : pass_log[j].rule = r

\* C7 amended: a patch call that fails for one host's route is not skipped:
\* the pass ends with it, in an error, and no route or host rule after it is
\* built or applied in that pass.
C7_ApplyFailureEndsThePass ==
    \A i \in FailedApplies :
        /\ Returned
        /\ i = Len(pass_log)
        /\ \A j \in DOMAIN pass_log : pass_log[j].rule <= pass_log[i].rule
        /\ ~rec_result.ok
        /\ rec_result.site = "Error"

\* C7 witness: the patch call for the first of two rules has failed, and the
\* second rule is one whose route can be built and applied.
C7_Witness ==
    /\ Returned
    /\ \E i \in FailedApplies : pass_log[i].rule = 1
    /\ Len(Rules) = 2
    /\ Rules[2] = RuleHttpOk

\* C8: the first patch call that fails makes reconcile return the error at
\* once; the call writes nothing, nothing applied earlier in the pass is rolled
\* back, no route is left to be written, and the requeue is the one on_error
\* gives.
C8_ApplyFailureIsFatal ==
    [][ ApplyFails =>
            /\ rec_pc' = "returned"
            /\ ~rec_result'.ok
            /\ rec_result'.err = "KubeError"
            /\ rec_result'.action = on_error(ingress, "KubeError", args)
            /\ pending' = << >>
            /\ store' = store
            /\ \A j \in Applied : pass_log[j].key \in DOMAIN store'
            /\ Applied \subseteq DOMAIN pass_log'
            /\ \A j \in Applied : pass_log'[j] = pass_log[j] ]_vars

\* C8 witness: a pass has ended in the error of a patch call after an earlier
\* patch call of the same pass had succeeded, with the object still there.
C8_Witness ==
    /\ Returned
    /\ rec_result.err = "KubeError"
    /\ \E i \in FailedApplies : \E j \in Applied :
          /\ j < i
          /\ pass_log[j].key \in DOMAIN store
          /\ pass_log[j].key # pass_log[i].key

\* the four ways a reconcile ends, each with its delay
Outcomes ==
    { [site |-> "NotLeader", ok |-> TRUE, action |-> Action_requeue(20)],
      [site |-> "Skipped", ok |-> TRUE, action |-> Action_requeue(60)],
      [site |-> "Done", ok |-> TRUE, action |-> Action_requeue(10)],
      [site |-> "Error", ok |-> FALSE, action |-> Action_requeue(30)] }

\* the work a reconcile in flight has left: the rules after the current one,
\* whether the current one is still to be built, and the reads it may still
\* make (one for each path, or one) or the routes still to apply
RemainingWork ==
    IF InFlight
    THEN <<Len(Rules) - rule_idx,
           IF rec_pc = "loop" THEN 1 ELSE 0,
           IF rec_pc = "loop"
           THEN (IF IsSome(Rules[rule_idx].http)
                 THEN Len(Unwrap(Rules[rule_idx].http).paths) ELSE 1) - Len(rule_reads)
           ELSE Len(pending)>>
    ELSE <<0, 0, 0>>
LexLess(a, b) ==
    \/ a[1] < b[1]
    \/ a[1] = b[1] /\ a[2] < b[2]
    \/ a[1] = b[1] /\ a[2] = b[2] /\ a[3] < b[3]

\* a reconcile in flight has a next step: a further read of the rule at
\* hand, the rule taken with an outcome, or a route to apply
CanStep ==
    /\ rec_pc = "loop" =>
          /\ rule_idx \in DOMAIN Rules
          /\ LET svcs == Append(rule_reads, services)
             IN  \/ ReadCount(ingress, args, svcs, Rules[rule_idx]) > Len(svcs)
                 \/ RuleOutcomes(ingress, args, svcs, Rules[rule_idx]) # {}
    /\ rec_pc = "applying" => pending # << >>

\* C9: every reconcile call ends, in exactly one of four ways, each with its
\* fixed delay: not leader 20 s, skipped 60 s, pass completed 10 s, error 30 s
\* whatever the error and however many reconciles failed before.  It ends
\* because a call in flight can always take its next step and every step of
\* the call (a step that leaves the flag, the lease and the futures of main
\* alone) leaves it with less work.
C9_FourOutcomes ==
    /\ [](Returned =>
            [site |-> rec_result.site, ok |-> rec_result.ok,
             action |-> rec_result.action] \in Outcomes)
    /\ [](InFlight => CanStep)
    /\ [][ (/\ UNCHANGED <<is_leader, lease_holder, lease_ret, proc>>
            /\ (ReconcileStart \/ ReconcileRead \/ ReconcileRule \/ ApplySucceeds
                    \/ ApplyFails)) =>
                \/ Returned'
                \/ InFlight' /\ (InFlight => LexLess(RemainingWork', RemainingWork)) ]_vars

\* C9 witness: a reconcile has ended in the error of a patch call after at
\* least one earlier reconcile had ended in an error too.
C9_Witness ==
    /\ Returned
    /\ rec_result.site = "Error"
    /\ rec_result.err = "KubeError"
    /\ n_errors >= 2

\* C10: a patch call whose route is the object the cluster already holds under
\* that name leaves the cluster as it was: no further object, no changed
\* content; and every object the program has applied, HTTPRoute or TCPRoute,
\* is managed by one and the same field manager.
C10_ReapplyIsNoOp ==
    /\ [][ (ApplySucceeds
            /\ ObjKey(Unwrap(ingress.metadata.namespace), Head(pending)) \in DOMAIN store
            /\ store[ObjKey(Unwrap(ingress.metadata.namespace), Head(pending))].obj
                    = Linked(ingress, args, Head(pending)))
           => store' = store ]_vars
    /\ [](\A k1, k2 \in DOMAIN store :
            /\ store[k1].managers = store[k2].managers
            /\ Cardinality(store[k1].managers) = 1)
    /\ [](\A i, j \in WriteCalls :
            pass_log[i].params.field_manager = pass_log[j].params.field_manager)

\* C10 witness: one pass has applied the same route twice, and the cluster
\* holds one object under its name.
C10_Witness ==
    /\ \E i, j \in Applied : i < j /\ pass_log[i].key = pass_log[j].key
    /\ Cardinality(DOMAIN store) = 1

\* whether the split-paths annotation of the Ingress reads "true", in any case
SplitOn ==
    LET ann == Annotation(ingress.metadata, SPLIT_ROUTES)
    IN  IsSome(ann) /\ EqualsIgnoringCase(Unwrap(ann), <<"t","r","u","e">>)

\* {ingressName}-{sanitizedHostname}-{suffix}
NameOf(host, suffix) ==
    ingress.metadata.name \o <<"-">> \o sanitize_hostname(host) \o <<"-">> \o suffix

\* the suffixes the naming convention gives the objects of one host rule:
\* "tcp" for its TCPRoute, "http" for its one HTTPRoute, and in split mode the
\* sanitized value of one of its paths ("root" for a path without a value)
SuffixesOf(rule, kind) ==
    IF kind = "TCPRoute" THEN { <<"t","c","p">> }
    ELSE IF ~SplitOn THEN { <<"h","t","t","p">> }
    ELSE { IF IsSome(Unwrap(rule.http).paths[j].path)
           THEN sanitize_hostname(Unwrap(Unwrap(rule.http).paths[j].path))
           ELSE <<"r","o","o","t">> : j \in DOMAIN Unwrap(rule.http).paths }

\* every patch call of the pass is for a name of the convention
NamesFollowConvention ==
    \A i \in WriteCalls :
        LET rule == Rules[pass_log[i].rule]
        IN  pass_log[i].key[3] \in
                { NameOf(Unwrap(rule.host), sfx) : sfx \in SuffixesOf(rule, pass_log[i].key[1]) }

\* C11 as claimed: every generated name is {ingressName}-{sanitizedHostname}-
\* {suffix}, and any two passes over the unchanged Ingress generate the same
\* set of names: once a pass has completed, every later completed pass has its
\* set of names, and no later pass creates an object under a further name.
C11_PassesGenerateSameNames ==
    /\ []NamesFollowConvention
    /\ [][ IsSome(done_names) =>
              /\ done_names' = done_names
              /\ DOMAIN store' = DOMAIN store ]_vars

\* C11 amended: every generated name is {ingressName}-{sanitizedHostname}-
\* {suffix}; and for an Ingress whose backends give their ports by number, so
\* that no Service is read, any two completed passes generate the same set of
\* names, and once a pass has completed no later pass creates an object under
\* a further name: a step changes the names of the last completed pass, or
\* the names in the cluster, only before the first completed pass or for an
\* Ingress that reads a Service.
C11_NamesFollowTheIngress ==
    /\ []NamesFollowConvention
    /\ [][ \/ /\ done_names' = done_names
              /\ DOMAIN store' = DOMAIN store
           \/ IsNone(done_names)
           \/ ReadsServices(ingress, args) ]_vars

\* C11 witness: after a completed pass that generated two names, a later pass
\* over the same Ingress has applied an object again under one of them.
C11_Witness ==
    /\ IsSome(done_names)
    /\ Cardinality(Unwrap(done_names)) >= 2
    /\ ~ReadsServices(ingress, args)
    /\ InFlight
    /\ \E i \in Applied : pass_log[i].key[3] \in Unwrap(done_names)

---------------------------------------------------------------------------
(* Vocabulary of the properties of the builders.                           *)

\* the call of function f has returned
FnReturned(f) == fn_call.fn = f /\ IsSome(fn_ret)
\* the host rule create_http_routes was called for, and its paths
CallRule == Rules[fn_call.arg]
CallHost == Unwrap(CallRule.host)
CallPaths == Unwrap(CallRule.http).paths

\* what the read made for the path at position i of the call finds: the
\* reads are made in the order of the paths, one for each path whose port
\* has a name and no number
WorldAt(i) ==
    LET before == { j \in 1..(i - 1) :
                      /\ IsSome(CallPaths[j].backend.service)
                      /\ IsSome(Unwrap(CallPaths[j].backend.service).port)
                      /\ ReadsPort(Unwrap(Unwrap(CallPaths[j].backend.service).port)) }
        k == Cardinality(before) + 1
    IN  fn_call.reads[IF k <= Len(fn_call.reads) THEN k ELSE Len(fn_call.reads)]

\* the path at position i is usable: its backend has a service, the service
\* a port, and the port is a number, or a name under which the Service has a
\* port when it is read for this path
UsableAt(i) ==
    LET path == CallPaths[i]
    IN  /\ IsSome(path.backend.service)
        /\ IsSome(Unwrap(path.backend.service).port)
        /\ LET svc == Unwrap(path.backend.service)
               port == Unwrap(svc.port)
               world == WorldAt(i)
           IN  \/ IsSome(port.number)
               \/ /\ IsSome(port.name)
                  /\ svc.name \in DOMAIN world
                  /\ IsSome(world[svc.name])
                  /\ IsSome(Unwrap(world[svc.name]).spec)
                  /\ IsSome(Unwrap(Unwrap(world[svc.name]).spec).ports)
                  /\ \E k \in DOMAIN Unwrap(Unwrap(Unwrap(world[svc.name]).spec).ports) :
                        Unwrap(Unwrap(Unwrap(world[svc.name]).spec).ports)[k].name = port.name
\* the positions of the usable paths, in the order of the paths, and the paths
UsableIdx == SelectSeq([ i \in 1..Len(CallPaths) |-> i ], UsableAt)
UsablePaths == [ k \in 1..Len(UsableIdx) |-> CallPaths[UsableIdx[k]] ]

\* the matcher rules of the Ingress under a prefix
MatcherRules(prefix) ==
    IF IsSome(ingress.metadata.annotations)
    THEN from_annotations(Unwrap(ingress.metadata.annotations), prefix)
    ELSE << >>

\* the number of ways to take one rule for each distinct key of a list
RECURSIVE ChoiceCountOver(_, _)
ChoiceCountOver(list, keys) ==
    IF keys = {} THEN 1
    ELSE LET k == CHOOSE x \in keys : TRUE
         IN  Cardinality({ i \in DOMAIN list : list[i].key = k })
                * ChoiceCountOver(list, keys \ {k})
ChoiceCount(list) == ChoiceCountOver(list, { list[i].key : i \in DOMAIN list })

\* the number of matcher variants: header choices times query choices
VariantCount ==
    ChoiceCount(MatcherRules(HEADER_FILTERS_PREFIX))
        * ChoiceCount(MatcherRules(QUERY_FILTERS_PREFIX))

\* C12: with the split-paths annotation true (in any case), a host whose
\* generation yields n rules gives n HTTPRoute objects of one rule each; with
\* the annotation absent or not true it gives one HTTPRoute, named with the
\* suffix "http", that holds all n rules.
C12_SplitOrAggregate ==
    (FnReturned("create_http_routes") /\ Unwrap(fn_ret).ok) =>
        LET routes == Unwrap(fn_ret).val
            n == Len(UsablePaths) * VariantCount
        IN  /\ n >= 1
            /\ \A i \in DOMAIN routes : routes[i].kind = "HTTPRoute"
            /\ IF SplitOn
               THEN /\ Len(routes) = n
                    /\ \A i \in DOMAIN routes : Len(Unwrap(routes[i].spec.rules)) = 1
               ELSE /\ Len(routes) = 1
                    /\ routes[1].metadata.name = NameOf(CallHost, <<"h","t","t","p">>)
                    /\ Len(Unwrap(routes[1].spec.rules)) = n

\* C12 witness: with split-paths "true", two usable paths and no matcher
\* annotation, create_http_routes has returned two objects.
C12_Witness ==
    /\ FnReturned("create_http_routes")
    /\ Unwrap(fn_ret).ok
    /\ SplitOn
    /\ Len(UsablePaths) = 2
    /\ VariantCount = 1
    /\ Len(Unwrap(fn_ret).val) = 2

\* all rules create_http_routes emitted, in the order of its objects
RECURSIVE RulesOfRoutes(_)
RulesOfRoutes(routes) ==
    IF routes = << >> THEN << >>
    ELSE Unwrap(routes[1].spec.rules) \o RulesOfRoutes(Tail(routes))

\* the path the i-th emitted rule was generated for: the rules come path by
\* path, VariantCount of them for each usable path
PathOfRule(usable, v, i) == usable[((i - 1) \div v) + 1]

\* C13: in split mode the name of the i-th emitted object ends in the
\* sanitized path value of the path its rule was generated for, and in the
\* literal "root" when that path has no value.
C13_SplitSuffixIsSanitizedPath ==
    (FnReturned("create_http_routes") /\ Unwrap(fn_ret).ok /\ SplitOn) =>
        LET routes == Unwrap(fn_ret).val
            usable == UsablePaths
            v == VariantCount
        IN  \A i \in DOMAIN routes :
                LET path == PathOfRule(usable, v, i).path
                IN  routes[i].metadata.name =
                        NameOf(CallHost,
                               IF IsNone(path) THEN <<"r","o","o","t">>
                               ELSE sanitize_hostname(Unwrap(path)))

\* C13 witness: split mode has emitted an object named ...-api for the path
\* "/api" and an object named ...-root for a path without a value.
C13_Witness ==
    /\ FnReturned("create_http_routes")
    /\ Unwrap(fn_ret).ok
    /\ SplitOn
    /\ \E i, j \in DOMAIN Unwrap(fn_ret).val :
          /\ PathOfRule(UsablePaths, VariantCount, i).path = Some(PathApi)
          /\ Unwrap(fn_ret).val[i].metadata.name = NameOf(CallHost, <<"a","p","i">>)
          /\ IsNone(PathOfRule(UsablePaths, VariantCount, j).path)
          /\ Unwrap(fn_ret).val[j].metadata.name = NameOf(CallHost, <<"r","o","o","t">>)

\* the closed map of path types as the specification gives it
ExpectedPathType(t) ==
    CASE t = "Prefix" -> "PathPrefix"
      [] t = "Exact" -> "Exact"
      [] t = "ImplementationSpecific" -> "PathPrefix"
      [] OTHER -> "no path type"
KnownPathType(t) == t \in {"Prefix", "Exact", "ImplementationSpecific"}

\* C14 as claimed: the rules of a host carry the path type Prefix ->
\* PathPrefix, Exact -> Exact, ImplementationSpecific -> PathPrefix; and when
\* any path of the host rule has another pathType string, create_http_routes
\* fails for the host, so that nothing is built or applied for it.
C14_UnknownPathTypeFailsTheHost ==
    FnReturned("create_http_routes") =>
        /\ Unwrap(fn_ret).ok =>
              LET all == RulesOfRoutes(Unwrap(fn_ret).val)
                  usable == UsablePaths
                  v == VariantCount
              IN  \A n \in DOMAIN all :
                    Unwrap(Unwrap(all[n].matches)[1].path).type
                        = Some(ExpectedPathType(PathOfRule(usable, v, n).path_type))
        /\ (\E j \in DOMAIN CallPaths : ~KnownPathType(CallPaths[j].path_type))
              => ~Unwrap(fn_ret).ok

\* C14 amended: the rules of a host carry the path type Prefix -> PathPrefix,
\* Exact -> Exact, ImplementationSpecific -> PathPrefix; when a usable path of
\* the host rule (backend with a service and a port that resolves) has another
\* pathType string, create_http_routes fails for the whole host and reconcile
\* builds and applies nothing for it; a path that is skipped for its backend
\* does not fail the host, whatever its pathType.
C14_UnknownPathTypeOfUsablePathFailsTheHost ==
    FnReturned("create_http_routes") =>
        /\ Unwrap(fn_ret).ok =>
              LET all == RulesOfRoutes(Unwrap(fn_ret).val)
                  usable == UsablePaths
                  v == VariantCount
              IN  \A n \in DOMAIN all :
                    Unwrap(Unwrap(all[n].matches)[1].path).type
                        = Some(ExpectedPathType(PathOfRule(usable, v, n).path_type))
        /\ (\E j \in DOMAIN UsablePaths : ~KnownPathType(UsablePaths[j].path_type))
              => /\ ~Unwrap(fn_ret).ok
                 /\ \A o \in RuleOutcomes(ingress, args, fn_call.reads, CallRule) :
                        o.skip /\ o.routes = << >>
        /\ (/\ UsablePaths # << >>
            /\ \A j \in DOMAIN UsablePaths : KnownPathType(UsablePaths[j].path_type))
              => Unwrap(fn_ret).ok

\* C14 witness: create_http_routes has failed for a host whose first path is
\* usable and of a known type and whose second path is usable and of an
\* unknown type.
C14_Witness ==
    /\ FnReturned("create_http_routes")
    /\ ~Unwrap(fn_ret).ok
    /\ Len(UsablePaths) = 2
    /\ KnownPathType(UsablePaths[1].path_type)
    /\ ~KnownPathType(UsablePaths[2].path_type)

\* a matcher rule as a header or query match of the Gateway API
MatchEntry(r) ==
    [name |-> r.key,
     type |-> Some(IF r.match_type = "Equal" THEN "Exact" ELSE "RegularExpression"),
     value |-> r.value]

\* the ways to take one rule for each distinct key of a list, each as a set
ChoicesOf(list) ==
    LET keys == { list[i].key : i \in DOMAIN list }
        entries == { MatchEntry(list[i]) : i \in DOMAIN list }
    IN  { { f[k] : k \in keys } :
            f \in { g \in [keys -> entries] : \A k \in keys : g[k].name = k } }

\* the matcher variants of the Ingress: a header choice with a query choice
ExpectedVariants ==
    ChoicesOf(MatcherRules(HEADER_FILTERS_PREFIX))
        \X ChoicesOf(MatcherRules(QUERY_FILTERS_PREFIX))

\* the header and query sets of the one match of a rule
VariantOf(r) ==
    LET m == Unwrap(r.matches)[1]
    IN  << IF IsSome(m.headers) THEN Range(Unwrap(m.headers)) ELSE {},
           IF IsSome(m.query_params) THEN Range(Unwrap(m.query_params)) ELSE {} >>

\* C15: create_http_routes emits exactly one rule for every pair of a usable
\* path and a matcher variant, p * v rules in all, each with one backend ref
\* (the path's service and port) and one match holding the path and the
\* variant's header and query sets; one path "/" of type Exact without
\* matcher annotations gives one HTTPRoute with one rule whose only match is
\* the path Exact "/" without header and query filters.
C15_OneRulePerPathAndVariant ==
    (FnReturned("create_http_routes") /\ Unwrap(fn_ret).ok) =>
        LET routes == Unwrap(fn_ret).val
            all == RulesOfRoutes(routes)
            usable == UsablePaths
            p == Len(usable)
            v == VariantCount
            headers == MatcherRules(HEADER_FILTERS_PREFIX)
            queries == MatcherRules(QUERY_FILTERS_PREFIX)
            variants == ExpectedVariants
        IN  /\ Len(all) = p * v
            /\ Cardinality(variants) = v
            /\ \A n \in DOMAIN all :
                  LET path == PathOfRule(usable, v, n)
                      svc == Unwrap(path.backend.service)
                      port == Unwrap(svc.port)
                      refs == Unwrap(all[n].backend_refs)
                      m == Unwrap(all[n].matches)
                  IN  /\ Len(refs) = 1
                      /\ refs[1].name = svc.name
                      /\ IsSome(port.number) => refs[1].port = port.number
                      /\ Len(m) = 1
                      /\ Unwrap(m[1].path).value = path.path
                      /\ VariantOf(all[n]) \in variants
                      /\ IsSome(m[1].headers) <=> headers # << >>
                      /\ IsSome(m[1].query_params) <=> queries # << >>
            /\ \A k \in 1..p : \A e \in variants :
                  Cardinality({ n \in ((k - 1) * v + 1)..(k * v) : VariantOf(all[n]) = e }) = 1
            /\ (/\ CallPaths = << HttpPath(PathRoot, "Exact", Backend(Some(PortNumber(80)))) >>
                /\ headers = << >>
                /\ queries = << >>)
                  => /\ Len(routes) = 1
                     /\ routes[1].kind = "HTTPRoute"
                     /\ Unwrap(routes[1].spec.rules)[1].matches =
                            Some(<< [path |-> Some([type |-> Some("Exact"),
                                                    value |-> Some(PathRoot)]),
                                     headers |-> None,
                                     query_params |-> None] >>)

\* C15 witness: two usable paths and four matcher variants (two header
\* choices, two query choices) have given eight rules.
C15_Witness ==
    /\ FnReturned("create_http_routes")
    /\ Unwrap(fn_ret).ok
    /\ Len(UsablePaths) = 2
    /\ VariantCount = 4
    /\ Len(RulesOfRoutes(Unwrap(fn_ret).val)) = 8


---------------------------------------------------------------------------
(* Vocabulary of the properties of the matcher functions.                  *)

\* the distinct keys of a list of rules
KeysOf(list) == { list[i].key : i \in DOMAIN list }

\* the choices of one rule of a list for each distinct key: a position of
\* the list for every key
PositionChoices(list) ==
    { f \in [KeysOf(list) -> DOMAIN list] : \A k \in KeysOf(list) : list[f[k]].key = k }

\* the rules a choice takes
RulesChosen(list, f) == { list[f[k]] : k \in KeysOf(list) }

\* C16: catesian_product of a list without entries is the empty sequence;
\* of any other list it holds one product per choice of one rule for each
\* distinct key (as many products as the group sizes multiply to, every set
\* of chosen rules as often as there are choices that take it), and every
\* product has exactly one rule for each distinct key of the list, hence no
\* two rules of one key; for the groups a:[A1,A2], b:[B1] it is the two
\* products {A1,B1} and {A2,B1}.
C16_ProductCrossesDistinctKeys ==
    FnReturned("catesian_product") =>
        LET list == fn_call.arg
            prods == Unwrap(fn_ret)
            choices == PositionChoices(list)
        IN  /\ list = << >> => prods = << >>
            /\ list # << >> =>
                  /\ Len(prods) = ChoiceCount(list)
                  /\ \A f \in choices :
                        Cardinality({ i \in DOMAIN prods :
                                        Range(prods[i]) = RulesChosen(list, f) })
                            = Cardinality({ g \in choices :
                                        RulesChosen(list, g) = RulesChosen(list, f) })
                  /\ \A i \in DOMAIN prods :
                        /\ Len(prods[i]) = Cardinality(KeysOf(list))
                        /\ \A k \in KeysOf(list) :
                              Cardinality({ n \in DOMAIN prods[i] : prods[i][n].key = k }) = 1
                        /\ \A n, m \in DOMAIN prods[i] :
                              n # m => prods[i][n].key # prods[i][m].key
            /\ GroupsFirstSeen(list) \in { << <<A1, A2>>, <<B1>> >>, << <<B1>>, <<A1, A2>> >> } =>
                  [ i \in DOMAIN prods |-> Range(prods[i]) ] = << {A1, B1}, {A2, B1} >>

\* the product of a:[A1,A2], b:[B1] has been computed, with the group of b
\* taken first
C16_Witness ==
    /\ FnReturned("catesian_product")
    /\ fn_call.arg = <<A1, B1, A2>>
    /\ Len(Unwrap(fn_ret)) = 2
    /\ Unwrap(fn_ret)[2][1] = B1


\* the list of an optional MatcherList, the absent one read as empty
ListOf(o) == IF IsSome(o) THEN Unwrap(o) ELSE << >>

\* C17: create_match_rulesets never returns an empty list. With no header
\* product and no query product it returns the one pair (None, None); with
\* products on one side only, each product of that side paired with None;
\* with products on both sides, one pair for every header product with every
\* query product, the header set made of rules of the header list and the
\* query set of rules of the query list.
C17_MatcherExpansion ==
    FnReturned("create_match_rulesets") =>
        LET res == Unwrap(fn_ret)
            hlist == ListOf(fn_call.arg.header_matchers)
            qlist == ListOf(fn_call.arg.query_matchers)
        IN  /\ res # << >>
            /\ \E hp \in catesian_product(hlist), qp \in catesian_product(qlist) :
                  /\ hp = << >> /\ qp = << >> => res = << <<None, None>> >>
                  /\ hp # << >> /\ qp = << >> =>
                        res = [ i \in DOMAIN hp |-> <<Some(hp[i]), None>> ]
                  /\ hp = << >> /\ qp # << >> =>
                        res = [ j \in DOMAIN qp |-> <<None, Some(qp[j])>> ]
                  /\ hp # << >> /\ qp # << >> =>
                        /\ Len(res) = Len(hp) * Len(qp)
                        /\ \A i \in DOMAIN hp, j \in DOMAIN qp :
                              res[(i - 1) * Len(qp) + j] = <<Some(hp[i]), Some(qp[j])>>
            /\ \A n \in DOMAIN res :
                  /\ IsSome(res[n][1]) => Range(Unwrap(res[n][1])) \subseteq Range(hlist)
                  /\ IsSome(res[n][2]) => Range(Unwrap(res[n][2])) \subseteq Range(qlist)

\* the expansion of two header products and two query products has returned
\* its four pairs
C17_Witness ==
    /\ FnReturned("create_match_rulesets")
    /\ fn_call.arg.header_matchers = Some(<<A1, A2, B1>>)
    /\ fn_call.arg.query_matchers = Some(<<A1, A2>>)
    /\ Len(Unwrap(fn_ret)) = 4
    /\ Range(Unwrap(Unwrap(fn_ret)[4][1])) = {A2, B1}
    /\ Unwrap(fn_ret)[4][2] = Some(<<A2>>)


\* the keys of an annotation map that start with the prefix, whose text
\* after the last "/" is an i32 and whose value is a rule
Qualifying(m, prefix) ==
    { k \in DOMAIN m : /\ starts_with(k, prefix)
                       /\ IsSome(parse_i32(AfterLastSlash(k)))
                       /\ MatchRule_from_str(m[k]).ok }
WeightOf(k) == Unwrap(parse_i32(AfterLastSlash(k)))

\* the qualifying keys by ascending weight, keys of one weight in key order
KeysByWeight(m, prefix) ==
    LET Q == Qualifying(m, prefix)
        Before(a, b) == \/ WeightOf(a) < WeightOf(b)
                        \/ WeightOf(a) = WeightOf(b) /\ StrLess(a, b)
    IN  [ i \in 1..Cardinality(Q) |->
            CHOOSE k \in Q : Cardinality({ a \in Q : Before(a, k) }) = i - 1 ]

\* C18 as claimed: from_annotations returns exactly the rules of the
\* qualifying annotations, and their weights ascend strictly along the
\* output.
C18_SortedStrictlyAscending ==
    FnReturned("from_annotations") =>
        LET m == fn_call.arg.annotations
            keys == KeysByWeight(m, fn_call.arg.prefix)
        IN  /\ Unwrap(fn_ret) = [ i \in DOMAIN keys |-> MatchRule_from_str(m[keys[i]]).val ]
            /\ \A i, j \in DOMAIN keys : i < j => WeightOf(keys[i]) < WeightOf(keys[j])

\* C18: from_annotations returns exactly the rules of the annotations whose
\* key starts with the prefix, whose text after the last "/" parses as an
\* i32 weight and whose value parses as a rule, by ascending weight, rules
\* of equal weight in the order of their keys; an annotation with another
\* weight text or a malformed value is left out and costs no other entry
\* its place.
C18_SortedAscendingTiesInKeyOrder ==
    FnReturned("from_annotations") =>
        LET m == fn_call.arg.annotations
            keys == KeysByWeight(m, fn_call.arg.prefix)
        IN  /\ Unwrap(fn_ret) = [ i \in DOMAIN keys |-> MatchRule_from_str(m[keys[i]]).val ]
            /\ \A i, j \in DOMAIN keys :
                  i < j => \/ WeightOf(keys[i]) < WeightOf(keys[j])
                           \/ /\ WeightOf(keys[i]) = WeightOf(keys[j])
                              /\ StrLess(keys[i], keys[j])
            /\ Len(Unwrap(fn_ret)) = Cardinality(Qualifying(m, fn_call.arg.prefix))

\* from_annotations has returned for the whole pool: the six rules that
\* qualify, the one of weight -1 first, the two of weight 1 in key order,
\* the one of weight 10 last
C18_Witness ==
    /\ FnReturned("from_annotations")
    /\ fn_call.arg.annotations = WeightedPool
    /\ [ i \in DOMAIN Unwrap(fn_ret) |-> Unwrap(fn_ret)[i].value ]
            = << <<"3">>, <<"2">>, <<"1">>, <<"a">>, <<"5">>, <<"0">> >>


---------------------------------------------------------------------------
(* Vocabulary of the properties of the helpers of utils.rs.                *)

\* the maximal runs of letters and digits of a string, in order
RECURSIVE AlnumRuns(_)
AlnumRuns(s) ==
    IF s = << >> THEN << >>
    ELSE IF ~IsAlnum(s[1]) THEN AlnumRuns(Tail(s))
    ELSE LET n == CHOOSE k \in 1..Len(s) :
                    /\ \A i \in 1..k : IsAlnum(s[i])
                    /\ k = Len(s) \/ ~IsAlnum(s[k + 1])
         IN  <<SubSeq(s, 1, n)>> \o AlnumRuns(SubSeq(s, n + 1, Len(s)))

\* the runs with one "-" between neighbours
RECURSIVE JoinWithHyphen(_)
JoinWithHyphen(runs) ==
    IF runs = << >> THEN << >>
    ELSE IF Len(runs) = 1 THEN runs[1]
    ELSE runs[1] \o <<"-">> \o JoinWithHyphen(Tail(runs))

AllHosts == <<"a","l","l","-","h","o","s","t","s">>

\* C19: sanitize_hostname returns the runs of letters and digits of its
\* input with a single "-" in place of whatever separates them and nothing
\* before the first or after the last, and "all-hosts" when there is no such
\* run: "foo.bar.com" gives "foo-bar-com", "*" and "" give "all-hosts",
\* "-foo-" gives "foo". The output is never empty, holds only letters,
\* digits and single hyphens that are neither first nor last, and
\* sanitizing it again returns it unchanged.
C19_SanitizedHostname ==
    FnReturned("sanitize_hostname") =>
        LET in == fn_call.arg
            out == Unwrap(fn_ret)
        IN  /\ out = IF AlnumRuns(in) = << >> THEN AllHosts
                     ELSE JoinWithHyphen(AlnumRuns(in))
            /\ in = <<"f","o","o",".","b","a","r",".","c","o","m">>
                  => out = <<"f","o","o","-","b","a","r","-","c","o","m">>
            /\ in = <<"*">> => out = AllHosts
            /\ in = << >> => out = AllHosts
            /\ in = <<"-","f","o","o","-">> => out = <<"f","o","o">>
            /\ out # << >>
            /\ \A i \in DOMAIN out :
                  \/ IsAlnum(out[i])
                  \/ /\ out[i] = "-"
                     /\ 1 < i /\ i < Len(out)
                     /\ out[i + 1] # "-"
            /\ sanitize_hostname(out) = out

\* a hostname with a wildcard, a run of two hyphens and a trailing blank has
\* been sanitized
C19_Witness ==
    /\ FnReturned("sanitize_hostname")
    /\ fn_call.arg = <<"*",".","F","o","o","-","-","b","a","r",".","i","o"," ">>
    /\ Unwrap(fn_ret) = <<"F","o","o","-","b","a","r","-","i","o">>


\* the owner references of an ObjectMeta, none read as the empty list
OwnerRefs(meta) == UnwrapOr(meta.owner_references, << >>)

\* C20: after any series of add_owner calls on an ObjectMeta the owner list
\* holds at most one reference per uid, the references it held before are
\* still its first entries, and every owner of a call has a reference under
\* its uid. In reconcile, with --link-to-ingress every route applied, the
\* HTTPRoutes and the TCPRoute, each linked only when its turn to be applied
\* has come, carries exactly one owner reference, with the apiVersion and
\* kind of Ingress and the name and uid of the source Ingress, also when it
\* is applied again by a later pass; without it the route carries none.
C20_OwnerAddedOncePerUid ==
    /\ FnReturned("add_owner") =>
          LET before == OwnerRefs(fn_call.arg.meta)
              after == OwnerRefs(Unwrap(fn_ret).meta)
              called == SubSeq(fn_call.arg.owners, 1, Unwrap(fn_ret).calls)
          IN  /\ \A i, j \in DOMAIN after : i # j => after[i].uid # after[j].uid
              /\ Len(before) <= Len(after)
              /\ SubSeq(after, 1, Len(before)) = before
              /\ \A k \in DOMAIN called :
                    \E i \in DOMAIN after : after[i].uid = Unwrap(called[k].metadata.uid)
              /\ \A i \in (Len(before) + 1)..Len(after) :
                    \E k \in DOMAIN called :
                        /\ after[i].uid = Unwrap(called[k].metadata.uid)
                        /\ after[i].name = called[k].metadata.name
                        /\ after[i].kind = "Ingress"
                        /\ after[i].api_version = "networking.k8s.io/v1"
    /\ fn_call.fn = "reconcile" =>
          /\ \A j \in Applied : pass_log[j].key \in DOMAIN store
          /\ \A k \in DOMAIN store :
                IF args.link_to_ingress
                THEN LET refs == OwnerRefs(store[k].obj.metadata)
                     IN  /\ Len(refs) = 1
                         /\ refs[1].api_version = "networking.k8s.io/v1"
                         /\ refs[1].kind = "Ingress"
                         /\ refs[1].name = ingress.metadata.name
                         /\ refs[1].uid = Unwrap(ingress.metadata.uid)
                ELSE store[k].obj.metadata.owner_references = None
          /\ (Returned /\ rec_result.site = "Done") =>
                /\ Cardinality(Applied) = 3
                /\ { pass_log[j].key : j \in Applied } = DOMAIN store
                /\ { k[1] : k \in DOMAIN store } = {"HTTPRoute", "TCPRoute"}

\* three add_owner calls have been made on a fresh ObjectMeta, two of them
\* for owners of one uid, and have left two references
C20_Witness ==
    /\ FnReturned("add_owner")
    /\ fn_call.arg.meta.owner_references = None
    /\ fn_call.arg.owners
          = << Owner(IngName, IngUid), Owner(IngName, OtherUid), Owner(<<"n","e","w">>, IngUid) >>
    /\ Unwrap(fn_ret).calls = 3
    /\ Len(OwnerRefs(Unwrap(fn_ret).meta)) = 2
    /\ OwnerRefs(Unwrap(fn_ret).meta)[1].name = IngName


---------------------------------------------------------------------------
(* Vocabulary of the properties of the pass over the rules.                *)

\* what C21 says of the rule r without http, given the condition under which
\* its TCPRoute is written
TcpRuleHandled(r, written) ==
    /\ WritesOf(r) # {} => args.experimental /\ IsSome(DefaultBackend)
    /\ EntriesOf(r) # {} =>
          IF written
          THEN /\ Cardinality(EntriesOf(r)) = 1
               /\ \A j \in EntriesOf(r) :
                     /\ j \in WriteCalls
                     /\ pass_log[j].key =
                           << "TCPRoute", Unwrap(ingress.metadata.namespace),
                              ingress.metadata.name \o <<"-">>
                                  \o sanitize_hostname(Unwrap(Rules[r].host))
                                  \o <<"-","t","c","p">> >>
                     /\ j \in Applied =>
                           LET svc == Unwrap(Unwrap(DefaultBackend).service)
                               refs == store[pass_log[j].key].obj.spec.rules[1].backend_refs
                           IN  /\ Len(store[pass_log[j].key].obj.spec.rules) = 1
                               /\ Len(refs) = 1
                               /\ refs[1].name = svc.name
                               /\ refs[1].port = Unwrap(svc.port).number
          ELSE WritesOf(r) = {}
    /\ (EntriesOf(r) # {} /\ ~(args.experimental /\ IsSome(DefaultBackend))) =>
          /\ WritesOf(r) = {}
          /\ WentOnAfter(r)

\* C21 as claimed: a host rule without http is written if and only if the
\* experimental flag is set and the Ingress declares a default backend; then
\* exactly one TCPRoute named {ingress}-{host}-tcp is applied for it, its
\* backend the default backend; otherwise nothing is written for the rule
\* and the pass goes on with the next rule.
C21_TcpRouteWhenFlagAndDefaultBackend ==
    \A r \in TcpRules :
        TcpRuleHandled(r, args.experimental /\ IsSome(DefaultBackend))

\* the port a Service of the cluster lists under a name: that of the first
\* of its ports with the name, None without such a port or such a Service
ListedPort(world, svc_name, port_name) ==
    IF /\ svc_name \in DOMAIN world
       /\ IsSome(world[svc_name])
       /\ IsSome(Unwrap(world[svc_name]).spec)
       /\ IsSome(Unwrap(Unwrap(world[svc_name]).spec).ports)
    THEN LET ports == Unwrap(Unwrap(Unwrap(world[svc_name]).spec).ports)
             hits == { k \in DOMAIN ports : ports[k].name = Some(port_name) }
         IN  IF hits = {} THEN None
             ELSE Some(ports[CHOOSE k \in hits : \A j \in hits : k <= j].port)
    ELSE None

\* the default backend has a service with a port, under the experimental
\* flag; and the port is given by name alone
DefaultBackendHasPort ==
    /\ args.experimental
    /\ IsSome(DefaultBackend)
    /\ IsSome(Unwrap(DefaultBackend).service)
    /\ IsSome(Unwrap(Unwrap(DefaultBackend).service).port)
DefaultPort == Unwrap(Unwrap(Unwrap(DefaultBackend).service).port)
DefaultPortNamed == DefaultBackendHasPort /\ IsNone(DefaultPort.number) /\ IsSome(DefaultPort.name)

\* C21 amended: a host rule without http is written if and only if the
\* experimental flag is set and the Ingress declares a default backend that
\* has a service with a port that resolves: a number, or a name under which
\* the Service has a port when the rule is taken; then exactly one TCPRoute
\* named {ingress}-{host}-tcp is applied for it, its backend the service and
\* port of the default backend; otherwise nothing is written for the rule and
\* the pass goes on with the next rule.
C21_TcpRouteWhenBackendResolves ==
    /\ [](\A r \in TcpRules :
            /\ IF DefaultPortNamed
               THEN \/ WritesOf(r) = {}
                    \/ /\ Cardinality(EntriesOf(r)) = 1
                       /\ \A j \in EntriesOf(r) :
                             /\ pass_log[j].key[1] = "TCPRoute"
                             /\ pass_log[j].key[3] =
                                   ingress.metadata.name \o <<"-">>
                                       \o sanitize_hostname(Unwrap(Rules[r].host))
                                       \o <<"-","t","c","p">>
                             /\ j \in Applied =>
                                   LET svc == Unwrap(Unwrap(DefaultBackend).service)
                                       refs == store[pass_log[j].key].obj.spec.rules[1].backend_refs
                                   IN  /\ Len(refs) = 1
                                       /\ refs[1].name = svc.name
                                       /\ \E w \in ServiceWorlds :
                                             /\ IsSome(ListedPort(w, svc.name, Unwrap(DefaultPort.name)))
                                             /\ refs[1].port = ListedPort(w, svc.name,
                                                                          Unwrap(DefaultPort.name))
               ELSE TcpRuleHandled(r, DefaultBackendHasPort /\ IsSome(DefaultPort.number))
            /\ (EntriesOf(r) # {} /\ WritesOf(r) = {}) => WentOnAfter(r))
    /\ [][ (/\ rec_pc = "loop"
            /\ proc' = proc
            /\ <<rec_pc, rule_idx, pass_log>>' # <<rec_pc, rule_idx, pass_log>>
            /\ rule_idx \in TcpRules
            /\ DefaultPortNamed) =>
              LET svc == Unwrap(Unwrap(DefaultBackend).service)
                  listed == ListedPort(services, svc.name, Unwrap(DefaultPort.name))
              IN  IF IsSome(listed)
                  THEN /\ rec_pc' = "applying"
                       /\ Len(pending') = 1
                       /\ pending'[1].kind = "TCPRoute"
                       /\ pending'[1].spec.rules[1].backend_refs[1].port = listed
                  ELSE /\ pass_log' = Append(pass_log, LogEntry(rule_idx, "build_failed",
                                                                << >>, NoParams))
                       /\ rec_pc' # "applying" ]_vars

\* a pass has ended in Done that applied the TCPRoute of its first rule, with
\* the port of the default backend, and then took its second rule
C21_Witness ==
    /\ Returned
    /\ rec_result.site = "Done"
    /\ 1 \in TcpRules
    /\ \E j \in Applied :
          /\ pass_log[j].rule = 1
          /\ pass_log[j].key[1] = "TCPRoute"
          /\ store[pass_log[j].key].obj.spec.rules[1].backend_refs[1].port = Some(9000)
    /\ EntriesOf(2) # {}


---------------------------------------------------------------------------
(* Vocabulary of the properties of the backends.                           *)

\* the port number the usable path at position i is routed to: its number,
\* or the port the Service lists under its name when it is read for the path
ExpectedPortAt(i) ==
    LET svc == Unwrap(CallPaths[i].backend.service)
        port == Unwrap(svc.port)
        ports == Unwrap(Unwrap(Unwrap(WorldAt(i)[svc.name]).spec).ports)
    IN  IF IsSome(port.number) THEN port.number
        ELSE Some(ports[CHOOSE k \in DOMAIN ports :
                            /\ ports[k].name = port.name
                            /\ \A j \in 1..(k - 1) : ports[j].name # port.name].port)

\* what the reads of the call found for its usable paths, in their order
UsableReads ==
    LET named == SelectSeq(UsableIdx,
                           LAMBDA i : IsNone(Unwrap(Unwrap(CallPaths[i].backend.service).port).number))
    IN  IF named = << >> THEN <<services>>
        ELSE [ k \in 1..Len(named) |-> WorldAt(named[k]) ]

\* C22: a path whose backend has no service, no port, or a named port the
\* Service in the cluster does not resolve (no such port name, or no such
\* Service) is skipped alone: create_http_routes returns what it returns for
\* the host without that path, so the other paths yield their rules. The
\* rules of a path with a numeric port go to that number, those of a path
\* with a named port to the number the Service lists under the name when
\* it is read for that path in this call, whatever an earlier read, of this
\* call or of a call before it, has found.
C22_UnusablePathSkippedAlone ==
    FnReturned("create_http_routes") =>
        LET usable == UsablePaths
            idx == UsableIdx
            info == RouteInfo(ingress, args, CallHost)
        IN  /\ create_http_routes(fn_call.reads, info, [paths |-> CallPaths])
                  = create_http_routes(UsableReads, info, [paths |-> usable])
            /\ Unwrap(fn_ret).ok =>
                  LET all == RulesOfRoutes(Unwrap(fn_ret).val)
                      v == VariantCount
                  IN  /\ Len(all) = Len(usable) * v
                      /\ \A n \in DOMAIN all :
                            LET path == PathOfRule(usable, v, n)
                                refs == Unwrap(all[n].backend_refs)
                            IN  /\ Len(refs) = 1
                                /\ refs[1].name = Unwrap(path.backend.service).name
                                /\ refs[1].port = ExpectedPortAt(PathOfRule(idx, v, n))

\* create_http_routes has returned for a host of two paths while the cluster
\* has no Service: the path with the named port is skipped, the path with
\* port 80 has its rule
C22_Witness ==
    /\ FnReturned("create_http_routes")
    /\ IsNone(services[SvcWeb])
    /\ CallPaths = << HttpPath(PathNamed, "Prefix", Backend(Some(PortNamed(PortHttp)))),
                      HttpPath(PathRoot, "Prefix", Backend(Some(PortNumber(80)))) >>
    /\ Unwrap(fn_ret).ok
    /\ Len(RulesOfRoutes(Unwrap(fn_ret).val)) = VariantCount
    /\ \A n \in DOMAIN RulesOfRoutes(Unwrap(fn_ret).val) :
          Unwrap(RulesOfRoutes(Unwrap(fn_ret).val)[n].backend_refs)[1].port = Some(80)


\* a step of the reconcile call under way: its position, its reads or its
\* log move, the process going on
ReconcileStep ==
    /\ InFlight
    /\ proc' = proc
    /\ <<rec_pc, rule_idx, rule_reads, pending, pass_log>>'
          # <<rec_pc, rule_idx, rule_reads, pending, pass_log>>

\* the last entry of the log after the step
LastEntry == pass_log'[Len(pass_log')]

\* C23: reconcile reads the leadership flag once, before any other step, and
\* never again: the return of a non-leader is taken only where the call
\* begins, with nothing logged; and every later step of the call, whether the
\* flag is still true or the elector has cleared it meanwhile, is the step
\* the loop takes for the rule or the route at hand -- the rule is skipped or
\* its routes are built as the Ingress, the arguments and the Services decide,
\* the patch call for the next pending route is made and its result alone
\* decides what follows -- and leaves the flag as it is.
C23_FlagReadOnceAtEntry ==
    /\ [](Returned /\ rec_result.site = "NotLeader" => pass_log = << >>)
    /\ [][ ReconcileStep =>
            /\ is_leader' = is_leader
            /\ rec_pc' = "returned" => rec_result'.site \in {"Done", "Error"}
            /\ rec_pc = "loop" =>
                  LET svcs == Append(rule_reads, services)
                  IN  IF ReadCount(ingress, args, svcs, Rules[rule_idx]) > Len(svcs)
                      THEN /\ rule_reads' = svcs
                           /\ UNCHANGED <<rec_pc, rule_idx, pending, pass_log>>
                      ELSE \E o \in RuleOutcomes(ingress, args, svcs, Rules[rule_idx]) :
                             IF o.skip
                             THEN /\ Len(pass_log') = Len(pass_log) + 1
                                  /\ LastEntry.ev = o.why
                                  /\ LastEntry.rule = rule_idx
                             ELSE /\ rec_pc' = "applying"
                                  /\ pending' = o.routes
                                  /\ pass_log' = pass_log
            /\ rec_pc = "applying" =>
                  LET route == Linked(ingress, args, Head(pending))
                      ns == Unwrap(ingress.metadata.namespace)
                  IN  /\ Len(pass_log') = Len(pass_log) + 1
                      /\ LastEntry.key = ObjKey(ns, route)
                      /\ LastEntry.ev \in {"applied", "apply_failed"}
                      /\ LastEntry.ev = "applied" =>
                            /\ store' = ServerSideApply(store, ns, route,
                                                        PatchParamsOf(route.kind))
                            /\ IF Len(pending) > 1
                               THEN rec_pc' = "applying" /\ pending' = Tail(pending)
                               ELSE IF rule_idx < Len(Rules)
                               THEN rec_pc' = "loop" /\ rule_idx' = rule_idx + 1
                               ELSE rec_pc' = "returned" /\ rec_result'.site = "Done"
                      /\ LastEntry.ev = "apply_failed" =>
                            /\ store' = store
                            /\ rec_pc' = "returned"
                            /\ rec_result'.site = "Error" ]_vars

\* C23 witness: a call that began as leader is under way at its second rule,
\* the routes of the first applied and a route of the second about to be,
\* while the elector has found the lease with another replica and cleared
\* the flag.
C23_Witness ==
    /\ rec_pc = "applying"
    /\ rule_idx = 2
    /\ \E i \in Applied : pass_log[i].rule = 1
    /\ ~is_leader
    /\ lease_holder = "other"
    /\ fail_streak = 0


\* C24: the elector and the reconcile dispatcher both run as long as the
\* process does, and the end of either ends the process: in every reachable
\* state either main is at its select! and both futures are running, or main
\* has ended and neither is; a step in which one of the two stops running is
\* a step in which main ends; and once main has ended no lease call sets the
\* flag and no reconcile starts, goes on or writes.
C24_BothTasksOrNeither ==
    /\ [](/\ proc.lease_renewer = "running" <=> proc.ingress_controller = "running"
          /\ proc.main = "select" <=> proc.lease_renewer = "running")
    /\ [][ /\ (proc'.lease_renewer # proc.lease_renewer
                  \/ proc'.ingress_controller # proc.ingress_controller)
              => proc'.main = "ended"
           /\ proc.main = "ended"
              => UNCHANGED <<proc, is_leader, fail_streak, rec_pc, rule_idx, pending,
                             rec_result, pass_log, store>> ]_vars

\* C24 witness: the elector has ended while the replica was applying routes:
\* the dispatcher was dropped with it, main has ended, and the routes applied
\* until then are left in the cluster.
C24_Witness ==
    /\ proc.lease_renewer = "exited"
    /\ proc.ingress_controller = "dropped"
    /\ proc.main = "ended"
    /\ store # << >>


\* the parent references of the routes in the cluster
StoredParentRefs == { Unwrap(store[k].obj.spec.parent_refs) : k \in DOMAIN store }

\* C25 as claimed: name, namespace and section name of the parent reference
\* of every generated route are each the annotation of the Ingress when it is
\* present and else a default taken from the operator's arguments.
C25_GatewayFieldsAnnotationElseArgument ==
    \A refs \in StoredParentRefs :
        /\ Len(refs) = 1
        /\ refs[1].name = UnwrapOr(Annotation(ingress.metadata, GATEWAY_NAME),
                                   args.default_gateway_name)
        /\ refs[1].namespace = Some(UnwrapOr(Annotation(ingress.metadata, GATEWAY_NAMESPACE),
                                             args.default_gateway_namespace))
        /\ IF IsSome(Annotation(ingress.metadata, DESIRED_SECTION))
           THEN refs[1].section_name = Annotation(ingress.metadata, DESIRED_SECTION)
           ELSE \E f \in {"default_gateway_name", "default_gateway_namespace"} :
                   refs[1].section_name = Some(args[f])

\* C25 amended: name and namespace of the parent reference of every generated
\* route are each the annotation of the Ingress when it is present and else
\* the default of the operator's arguments; the section name is the
\* annotation when it is present and is absent otherwise, the arguments
\* holding no default for it; the three are resolved independently.
C25_GatewayFieldsResolved ==
    \A refs \in StoredParentRefs :
        /\ Len(refs) = 1
        /\ refs[1].name = UnwrapOr(Annotation(ingress.metadata, GATEWAY_NAME),
                                   args.default_gateway_name)
        /\ refs[1].namespace = Some(UnwrapOr(Annotation(ingress.metadata, GATEWAY_NAMESPACE),
                                             args.default_gateway_namespace))
        /\ refs[1].section_name = Annotation(ingress.metadata, DESIRED_SECTION)

\* C25 witness: an HTTPRoute and a TCPRoute are in the cluster for an Ingress
\* annotated with a gateway name and with neither a gateway namespace nor a
\* section name.
C25_Witness ==
    /\ IsSome(Annotation(ingress.metadata, GATEWAY_NAME))
    /\ IsNone(Annotation(ingress.metadata, GATEWAY_NAMESPACE))
    /\ IsNone(Annotation(ingress.metadata, DESIRED_SECTION))
    /\ \E k \in DOMAIN store : k[1] = "HTTPRoute"
    /\ \E k \in DOMAIN store : k[1] = "TCPRoute"


\* C26 as claimed: every call of catesian_product on a MatcherList takes the
\* groups in the order in which their keys first appear in the list, so that
\* it returns the one sequence of product sets that order gives, with the
\* rules of each set in that order, and two calls on the same list return the
\* same sequence.
C26_ProductInFirstSeenOrder ==
    (fn_call.fn = "catesian_product" /\ IsSome(fn_ret)) =>
        /\ Unwrap(fn_ret) = ProductOfGroups(GroupsFirstSeen(fn_call.arg))
        /\ catesian_product(fn_call.arg) = { Unwrap(fn_ret) }


\* the leadership flag of the replica that holds the lease when it is not
\* this one: that replica runs the same lease_renew, which stored true after
\* the lease call that took the lease and stores false only after a later
\* call that succeeds and finds the lease with someone else
OtherReplicaIsLeader == lease_holder = "other"

\* C27 as claimed: with several replicas sharing the lease, at every moment
\* at most one of them has its leadership flag true, under every interleaving
\* of lease calls, expiry of the lease after its TTL, and failed lease calls
\* that leave a flag at its last value.
C27_AtMostOneLeader ==
    ~(is_leader /\ OtherReplicaIsLeader)


\* C28 as claimed: the objects one reconcile pass applies have, kind by kind,
\* pairwise distinct names, whatever hosts, paths, matcher variants and
\* split-routes setting the Ingress has: no patch call of a pass is made for
\* an object that an earlier patch call of the same pass was made for.
C28_NamesDistinctWithinPass ==
    \A i, j \in Applied : i # j => pass_log[i].key # pass_log[j].key

=============================================================================
